---- MODULE Spec2Model ----
(***************************************************************************)
(* Four-player chess: the game-state engine (class Algorithm and its       *)
(* Teams variant) together with the Board it drives.                       *)
(*                                                                         *)
(* Text is modelled as a sequence of tokens: a maximal run of digits is    *)
(* one token, a piece tag (colour letter + kind letter) is one token and   *)
(* every other character (a file letter, a blank, '/', '-', ',', ...) is   *)
(* one token.  Two texts are byte-identical iff their token sequences are  *)
(* equal.  A bitmask over the 196 squares is modelled as the set of the    *)
(* squares whose bit is set.                                               *)
(***************************************************************************)
EXTENDS Integers, Sequences, FiniteSets, TLC

(***************************************************************************)
(* Bounds of the model.                                                    *)
(***************************************************************************)
\* the largest number of move nodes (the root not counted) a tree may hold
MaxNodes == 5

\* the moves a tree holds at most when makeMove is called between the readings of
\* texts, and the texts read at most in one behaviour
MaxPlayed == 3

MaxReads == 2

\* the moves a tree holds at most when its move text is examined, and the highest ply
\* of the position texts such a game is loaded from
MaxText == 4

MaxStart == 4

\* the moves each tree holds at most when two games are played side by side
MaxShared == 1

(***************************************************************************)
(* Constants of class Algorithm.                                           *)
(***************************************************************************)
NoResult == "*"
NoPlayer == "?"
Red == "r"
Blue == "b"
Yellow == "y"
Green == "g"
files == 14
ranks == 14

startFen4 ==
  <<
    "3", "yR", "yN", "yB", "yK", "yQ", "yB", "yN", "yR", "3", "/", "3", "yP", "yP", "yP", "yP",
    "yP", "yP", "yP", "yP", "3", "/", "14", "/", "bR", "bP", "10", "gP", "gR", "/", "bN", "bP",
    "10", "gP", "gN", "/", "bB", "bP", "10", "gP", "gB", "/", "bK", "bP", "10", "gP", "gQ", "/",
    "bQ", "bP", "10", "gP", "gK", "/", "bB", "bP", "10", "gP", "gB", "/", "bN", "bP", "10",
    "gP", "gN", "/", "bR", "bP", "10", "gP", "gR", "/", "14", "/", "3", "rP", "rP", "rP", "rP",
    "rP", "rP", "rP", "rP", "3", "/", "3", "rR", "rN", "rB", "rQ", "rK", "rB", "rN", "rR", "3",
    " ", "r", " ", "rK", "rQ", "bK", "bQ", "yK", "yQ", "gK", "gQ", " ", "-", " ", "0", " ", "1" >>

chesscomStartFen4 ==
  <<
    "R", "-", "0", ",", "0", ",", "0", ",", "0", "-", "1", ",", "1", ",", "1", ",", "1", "-",
    "1", ",", "1", ",", "1", ",", "1", "-", "0", ",", "0", ",", "0", ",", "0", "-", "0", "-",
    "3", ",", "yR", ",", "yN", ",", "yB", ",", "yK", ",", "yQ", ",", "yB", ",", "yN", ",", "yR",
    ",", "3", "/", "3", ",", "yP", ",", "yP", ",", "yP", ",", "yP", ",", "yP", ",", "yP", ",",
    "yP", ",", "yP", ",", "3", "/", "14", "/", "bR", ",", "bP", ",", "10", ",", "gP", ",", "gR",
    "/", "bN", ",", "bP", ",", "10", ",", "gP", ",", "gN", "/", "bB", ",", "bP", ",", "10", ",",
    "gP", ",", "gB", "/", "bK", ",", "bP", ",", "10", ",", "gP", ",", "gQ", "/", "bQ", ",", "bP",
    ",", "10", ",", "gP", ",", "gK", "/", "bB", ",", "bP", ",", "10", ",", "gP", ",", "gB", "/",
    "bN", ",", "bP", ",", "10", ",", "gP", ",", "gN", "/", "bR", ",", "bP", ",", "10", ",", "gP",
    ",", "gR", "/", "14", "/", "3", ",", "rP", ",", "rP", ",", "rP", ",", "rP", ",", "rP", ",",
    "rP", ",", "rP", ",", "rP", ",", "3", "/", "3", ",", "rR", ",", "rN", ",", "rB", ",", "rQ",
    ",", "rK", ",", "rB", ",", "rN", ",", "rR", ",", "3" >>

(***************************************************************************)
(* Characters and numbers.                                                 *)
(***************************************************************************)
\* str(n) and int(s) for the numbers that occur in position and move text
NumStr ==
  <<"1", "2", "3", "4", "5", "6", "7", "8", "9", "10", "11", "12", "13", "14", "15", "16",
    "17", "18", "19", "20", "21", "22", "23", "24">>

str(n) == IF n = 0 THEN "0" ELSE NumStr[n]

int(s) == IF s = "0" THEN 0 ELSE CHOOSE n \in 1..Len(NumStr) : NumStr[n] = s

isdigit(s) == s = "0" \/ \E n \in 1..Len(NumStr) : NumStr[n] = s

\* chr(97 + file)
FileChr == <<"a", "b", "c", "d", "e", "f", "g", "h", "i", "j", "k", "l", "m", "n">>

chr97(file) == FileChr[file + 1]

\* ord(c) - 97
ord97(c) == (CHOOSE i \in 1..Len(FileChr) : FileChr[i] = c) - 1

ColorChars == <<"r", "b", "y", "g">>

PieceChars == <<"P", "N", "B", "R", "Q", "K">>

upper(c) ==
  CASE c = "r" -> "R" [] c = "b" -> "B" [] c = "y" -> "Y" [] c = "g" -> "G" [] OTHER -> c

lower(c) ==
  CASE c = "R" -> "r" [] c = "B" -> "b" [] c = "Y" -> "y" [] c = "G" -> "g" [] OTHER -> c

\* list.index(x), 0-based
IndexOf(seq, x) == (CHOOSE i \in 1..Len(seq) : seq[i] = x) - 1

\* the piece tags: a colour character followed by a kind character
Tags == {c \o k : c \in {ColorChars[i] : i \in 1..4}, k \in {PieceChars[j] : j \in 1..6}}

\* tag[0] and tag[1] of a piece tag
TagColor ==
  [rP |-> "r", rN |-> "r", rB |-> "r", rR |-> "r", rQ |-> "r", rK |-> "r", bP |-> "b",
   bN |-> "b", bB |-> "b", bR |-> "b", bQ |-> "b", bK |-> "b", yP |-> "y", yN |-> "y",
   yB |-> "y", yR |-> "y", yQ |-> "y", yK |-> "y", gP |-> "g", gN |-> "g", gB |-> "g",
   gR |-> "g", gQ |-> "g", gK |-> "g"]

TagKind ==
  [rP |-> "P", rN |-> "N", rB |-> "B", rR |-> "R", rQ |-> "Q", rK |-> "K", bP |-> "P",
   bN |-> "N", bB |-> "B", bR |-> "R", bQ |-> "Q", bK |-> "K", yP |-> "P", yN |-> "N",
   yB |-> "B", yR |-> "R", yQ |-> "Q", yK |-> "K", gP |-> "P", gN |-> "N", gB |-> "B",
   gR |-> "R", gQ |-> "Q", gK |-> "K"]

Char0(data) == IF data \in Tags THEN TagColor[data] ELSE data

Char1(data) == TagKind[data]

\* str.split(sep) for a text of tokens: the fields between the separator tokens
RECURSIVE SplitOn(_, _)
SplitOn(text, sep) ==
  IF \A i \in 1..Len(text) : text[i] # sep THEN <<text>>
  ELSE LET k == CHOOSE i \in 1..Len(text) :
                  text[i] = sep /\ \A j \in 1..(i - 1) : text[j] # sep
       IN  <<SubSeq(text, 1, k - 1)>> \o SplitOn(SubSeq(text, k + 1, Len(text)), sep)

\* str.split(): the non-empty fields between runs of blanks
NonEmpty(fields) == SelectSeq(fields, LAMBDA f : f # <<>>)

split(text) == NonEmpty(SplitOn(text, " "))

Remove(text, c) == SelectSeq(text, LAMBDA t : t # c)

(***************************************************************************)
(* Board: a 14 x 14 grid whose four 3 x 3 corners are unplayable, the      *)
(* piece on each square and the castling rights.                           *)
(***************************************************************************)
Squares == 0..(files * ranks - 1)

square(file, rank) == rank * files + file

fileOf(sq) == sq % files

rankOf(sq) == sq \div files

OnGrid(file, rank) == file >= 0 /\ file < files /\ rank >= 0 /\ rank < ranks

Corner(file, rank) == (file < 3 \/ file > 10) /\ (rank < 3 \/ rank > 10)

Playable(file, rank) == OnGrid(file, rank) /\ ~Corner(file, rank)

RED == 0
BLUE == 1
YELLOW == 2
GREEN == 3
QUEENSIDE == 0
KINGSIDE == 1

\* the home square of each colour's king, and of its rook on each side
KingHomeOf(c) ==
  CASE c = RED -> square(7, 0) [] c = BLUE -> square(0, 7)
    [] c = YELLOW -> square(6, 13) [] c = GREEN -> square(13, 6)

RookHomeOf(c, s) ==
  CASE c = RED /\ s = KINGSIDE -> square(10, 0)
    [] c = RED /\ s = QUEENSIDE -> square(3, 0)
    [] c = BLUE /\ s = KINGSIDE -> square(0, 10)
    [] c = BLUE /\ s = QUEENSIDE -> square(0, 3)
    [] c = YELLOW /\ s = KINGSIDE -> square(3, 13)
    [] c = YELLOW /\ s = QUEENSIDE -> square(10, 13)
    [] c = GREEN /\ s = KINGSIDE -> square(13, 3)
    [] c = GREEN /\ s = QUEENSIDE -> square(13, 10)

\* the piece on a square: data is the list of the 196 squares' contents, ' ' for none
At(data, sq) == data[sq + 1]

\* castle[color][side], the mask of the rook's home square or the empty mask
Right(castle, c, s) == castle[c + 1][s + 1]

\* Board(14, 14): no piece on any square, every castling right present
BlankRank == <<" ", " ", " ", " ", " ", " ", " ", " ", " ", " ", " ", " ", " ", " ">>

EmptyData ==
  BlankRank \o BlankRank \o BlankRank \o BlankRank \o BlankRank \o BlankRank \o BlankRank
  \o BlankRank \o BlankRank \o BlankRank \o BlankRank \o BlankRank \o BlankRank \o BlankRank

CastleOf(held(_, _)) ==
  LET mask(c, s) == IF held(c, s) THEN {RookHomeOf(c, s)} ELSE {}
  IN  <<<<mask(RED, QUEENSIDE), mask(RED, KINGSIDE)>>,
        <<mask(BLUE, QUEENSIDE), mask(BLUE, KINGSIDE)>>,
        <<mask(YELLOW, QUEENSIDE), mask(YELLOW, KINGSIDE)>>,
        <<mask(GREEN, QUEENSIDE), mask(GREEN, KINGSIDE)>>>>

FullCastle == CastleOf(LAMBDA c, s : TRUE)

NewBoard == [data |-> EmptyData, castle |-> FullCastle]

getData(board, file, rank) == At(board.data, square(file, rank))

\* the rights as text: per colour, in the order Red, Blue, Yellow, Green, the
\* tag of the king side then of the queen side, each only if the right is held
RECURSIVE CastlingText(_, _)
CastlingText(castle, c) ==
  IF c > 3 THEN <<>>
  ELSE (IF Right(castle, c, KINGSIDE) # {} THEN <<ColorChars[c + 1] \o "K">> ELSE <<>>)
       \o (IF Right(castle, c, QUEENSIDE) # {} THEN <<ColorChars[c + 1] \o "Q">> ELSE <<>>)
       \o CastlingText(castle, c + 1)

castlingAvailability(board) == CastlingText(board.castle, 0)

CastleFromTags(tags) ==
  CastleOf(LAMBDA c, s : (ColorChars[c + 1] \o (IF s = KINGSIDE THEN "K" ELSE "Q")) \in tags)

(***************************************************************************)
(* Board: position text.  The grid lists the ranks from 14 down to 1 and,  *)
(* within a rank, the files from a to n; a run of empty squares (corner    *)
(* squares included) is written as its length.                             *)
(***************************************************************************)
RECURSIVE EncodeRank(_, _, _, _)
EncodeRank(data, rank, file, run) ==
  IF file = files THEN (IF run > 0 THEN <<str(run)>> ELSE <<>>)
  ELSE IF At(data, square(file, rank)) = " " THEN EncodeRank(data, rank, file + 1, run + 1)
  ELSE (IF run > 0 THEN <<str(run)>> ELSE <<>>) \o <<At(data, square(file, rank))>>
       \o EncodeRank(data, rank, file + 1, 0)

\* sep.join(cells); the empty separator concatenates
RECURSIVE Join(_, _)
Join(cells, sep) ==
  IF Len(cells) <= 1 THEN cells
  ELSE <<cells[1]>> \o sep \o Join(Tail(cells), sep)

RECURSIVE EncodeGrid(_, _, _)
EncodeGrid(data, rank, cellSep) ==
  Join(EncodeRank(data, rank, 0, 0), cellSep)
  \o (IF rank = 0 THEN <<>> ELSE <<"/">> \o EncodeGrid(data, rank - 1, cellSep))

\* Board.getFen4(): the grid of dialect A, followed by one blank
BoardGetFen4(board) == EncodeGrid(board.data, ranks - 1, <<>>) \o <<" ">>

\* Board.getChesscomFen4(): the grid of dialect B, the cells of a rank separated by commas
getChesscomFen4(board) == EncodeGrid(board.data, ranks - 1, <<",">>)

\* the contents of the squares of one rank, file a first
RECURSIVE ExpandRank(_)
ExpandRank(cells) ==
  IF cells = <<>> THEN <<>>
  ELSE (IF isdigit(Head(cells)) THEN SubSeq(BlankRank, 1, int(Head(cells)))
        ELSE <<Head(cells)>>)
       \o ExpandRank(Tail(cells))

\* the occupancy a grid text describes: its ranks, separated by '/', from 14 down to 1
RECURSIVE ParseRanks(_)
ParseRanks(rows) ==
  IF rows = <<>> THEN <<>> ELSE ParseRanks(Tail(rows)) \o ExpandRank(Head(rows))

ParseGrid(tokens) == ParseRanks(SplitOn(Remove(tokens, ","), "/"))

\* the flags '1,1,1,1' of dialect B as the set of colours whose flag is 1
FlagTags(field, side) ==
  LET flags == Remove(field, ",")
  IN  {ColorChars[c] \o side : c \in {k \in 1..4 : k <= Len(flags) /\ flags[k] = "1"}}

\* Board.parseFen4(fen4): the occupancy and the castling rights of a position text
parseFen4(fen4, chesscom) ==
  IF chesscom
  THEN LET f == SplitOn(fen4, "-")
       IN  [data |-> ParseGrid(f[Len(f)]),
            castle |-> CastleFromTags(FlagTags(f[3], "K") \cup FlagTags(f[4], "Q"))]
  ELSE LET f == SplitOn(fen4, " ")
       IN  [data |-> ParseGrid(f[1]),
            castle |-> CastleFromTags({f[3][k] : k \in 1..Len(f[3])})]

(***************************************************************************)
(* Board: pseudo-legal moves of one piece, as the set of its destination   *)
(* squares.                                                                *)
(***************************************************************************)
ColorOfSquare(board, sq) == Char0(At(board.data, sq))

IsEmpty(board, sq) == At(board.data, sq) = " "

\* a square the piece of the given colour may land on: playable and not held by that colour
Landing(board, file, rank, color) ==
  /\ Playable(file, rank)
  /\ ColorOfSquare(board, square(file, rank)) # ColorChars[color + 1]

KnightSteps ==
  {<<1, 2>>, <<2, 1>>, <<2, -1>>, <<1, -2>>, <<-1, -2>>, <<-2, -1>>, <<-2, 1>>, <<-1, 2>>}

KingSteps ==
  {<<1, 0>>, <<1, 1>>, <<0, 1>>, <<-1, 1>>, <<-1, 0>>, <<-1, -1>>, <<0, -1>>, <<1, -1>>}

RookRays == {<<1, 0>>, <<0, 1>>, <<-1, 0>>, <<0, -1>>}

BishopRays == {<<1, 1>>, <<-1, 1>>, <<-1, -1>>, <<1, -1>>}

Leaps(board, origin, color, steps) ==
  {square(fileOf(origin) + d[1], rankOf(origin) + d[2]) : d \in
     {e \in steps : Landing(board, fileOf(origin) + e[1], rankOf(origin) + e[2], color)}}

\* the squares along one ray, up to and including the first enemy piece
RECURSIVE Slide(_, _, _, _, _)
Slide(board, file, rank, d, color) ==
  LET f == file + d[1]
      r == rank + d[2]
  IN  IF ~Landing(board, f, r, color) THEN {}
      ELSE IF IsEmpty(board, square(f, r)) THEN {square(f, r)} \cup Slide(board, f, r, d, color)
      ELSE {square(f, r)}

Slides(board, origin, color, rays) ==
  UNION {Slide(board, fileOf(origin), rankOf(origin), d, color) : d \in rays}

\* the direction in which each colour's pawns advance
PawnDir(c) ==
  CASE c = RED -> <<0, 1>> [] c = BLUE -> <<1, 0>> [] c = YELLOW -> <<0, -1>>
    [] c = GREEN -> <<-1, 0>>

\* how far a pawn has advanced from its home row (0 on the home row)
PawnAdvance(sq, color) ==
  CASE color = RED -> rankOf(sq) - 1 [] color = BLUE -> fileOf(sq) - 1
    [] color = YELLOW -> 12 - rankOf(sq) [] color = GREEN -> 12 - fileOf(sq)

PawnMoves(board, origin, color) ==
  LET d == PawnDir(color)
      f1 == fileOf(origin) + d[1]
      r1 == rankOf(origin) + d[2]
      f2 == f1 + d[1]
      r2 == r1 + d[2]
      free1 == Playable(f1, r1) /\ IsEmpty(board, square(f1, r1))
      free2 == Playable(f2, r2) /\ IsEmpty(board, square(f2, r2))
      \* the two squares diagonally ahead
      diag == {<<f1 + d[2], r1 + d[1]>>, <<f1 - d[2], r1 - d[1]>>}
  IN  (IF free1 THEN {square(f1, r1)} ELSE {})
      \cup (IF free1 /\ free2 /\ PawnAdvance(origin, color) = 0 THEN {square(f2, r2)} ELSE {})
      \cup {square(c[1], c[2]) : c \in
              {e \in diag : /\ Landing(board, e[1], e[2], color)
                            /\ ~IsEmpty(board, square(e[1], e[2]))}}

\* the squares strictly between two squares of one rank or one file
Between(a, b) ==
  {sq \in Squares :
     \/ /\ rankOf(sq) = rankOf(a) /\ rankOf(a) = rankOf(b)
        /\ \/ (fileOf(a) < fileOf(sq) /\ fileOf(sq) < fileOf(b))
           \/ (fileOf(b) < fileOf(sq) /\ fileOf(sq) < fileOf(a))
     \/ /\ fileOf(sq) = fileOf(a) /\ fileOf(a) = fileOf(b)
        /\ \/ (rankOf(a) < rankOf(sq) /\ rankOf(sq) < rankOf(b))
           \/ (rankOf(b) < rankOf(sq) /\ rankOf(sq) < rankOf(a))}

\* castling: the king on its home square may move onto its own rook's home square
\* while the right is held, the rook stands there and the squares between are empty
CastlingMoves(board, origin, color) ==
  {rook \in UNION {Right(board.castle, color, s) : s \in 0..1} :
     /\ origin = KingHomeOf(color)
     /\ At(board.data, rook) = ColorChars[color + 1] \o "R"
     /\ \A sq \in Between(origin, rook) : IsEmpty(board, sq)}

\* piece is the index of the kind in 'PNBRQK' plus 4
legalMoves(board, piece, origin, color) ==
  CASE piece = 4 -> PawnMoves(board, origin, color)
    [] piece = 5 -> Leaps(board, origin, color, KnightSteps)
    [] piece = 6 -> Slides(board, origin, color, BishopRays)
    [] piece = 7 -> Slides(board, origin, color, RookRays)
    [] piece = 8 -> Slides(board, origin, color, RookRays \cup BishopRays)
    [] piece = 9 -> Leaps(board, origin, color, KingSteps)
                    \cup CastlingMoves(board, origin, color)

(***************************************************************************)
(* Board: making and taking back a move.                                   *)
(***************************************************************************)
\* a king moving onto a rook of its own colour
IsCastling(piece, captured) ==
  /\ piece \in Tags /\ captured \in Tags
  /\ TagKind[piece] = "K" /\ TagKind[captured] = "R"
  /\ TagColor[piece] = TagColor[captured]

Sign(n) == IF n > 0 THEN 1 ELSE IF n < 0 THEN -1 ELSE 0

\* castling puts the king two squares towards the rook and the rook on the square it crossed
CastledKing(from, to) ==
  square(fileOf(from) + 2 * Sign(fileOf(to) - fileOf(from)),
         rankOf(from) + 2 * Sign(rankOf(to) - rankOf(from)))

CastledRook(from, to) ==
  square(fileOf(from) + Sign(fileOf(to) - fileOf(from)),
         rankOf(from) + Sign(rankOf(to) - rankOf(from)))

\* a pawn that reaches the far edge for its colour becomes a queen
Promoted(piece, to) ==
  IF piece \in Tags /\ TagKind[piece] = "P"
     /\ PawnAdvance(to, IndexOf(ColorChars, TagColor[piece])) = 12
  THEN TagColor[piece] \o "Q" ELSE piece

\* the rights left after the piece has moved away from its square
CastleAfter(castle, piece, from) ==
  IF piece \notin Tags THEN castle
  ELSE LET c == IndexOf(ColorChars, TagColor[piece])
       IN  IF TagKind[piece] = "K" THEN [castle EXCEPT ![c + 1] = <<{}, {}>>]
           ELSE IF TagKind[piece] = "R"
           THEN [castle EXCEPT ![c + 1] = <<Right(castle, c, QUEENSIDE) \ {from},
                                            Right(castle, c, KINGSIDE) \ {from}>>]
           ELSE castle

BoardMakeMove(board, fromFile, fromRank, toFile, toRank) ==
  LET from == square(fromFile, fromRank)
      to == square(toFile, toRank)
      piece == At(board.data, from)
      captured == At(board.data, to)
  IN  IF IsCastling(piece, captured)
      THEN [data |-> [board.data EXCEPT ![from + 1] = " ", ![to + 1] = " ",
                                        ![CastledKing(from, to) + 1] = piece,
                                        ![CastledRook(from, to) + 1] = captured],
            castle |-> CastleAfter(board.castle, piece, from)]
      ELSE [data |-> [board.data EXCEPT ![from + 1] = " ", ![to + 1] = Promoted(piece, to)],
            castle |-> CastleAfter(board.castle, piece, from)]

\* the castling rights are left as they are: a right once lost stays lost
undoMove(board, fromFile, fromRank, toFile, toRank, piece, captured) ==
  LET from == square(fromFile, fromRank)
      to == square(toFile, toRank)
  IN  IF IsCastling(piece, captured)
      THEN [board EXCEPT !.data = [board.data EXCEPT ![CastledKing(from, to) + 1] = " ",
                                                     ![CastledRook(from, to) + 1] = " ",
                                                     ![from + 1] = piece, ![to + 1] = captured]]
      ELSE [board EXCEPT !.data = [board.data EXCEPT ![from + 1] = piece,
                                                     ![to + 1] = captured]]

(***************************************************************************)
(* Algorithm: the move tree.  The nodes live in a sequence; a node is      *)
(* named by its position in it, the root is node 1 and 0 stands for None.  *)
(***************************************************************************)
None == <<"None">>

RootName == <<"root">>

Node(name, children, parent) ==
  [name |-> name, children |-> children, parent |-> parent, fen4 |-> None, comment |-> <<>>]

\* a faulty Node.add that puts the node in front of its siblings
addFirst(nodes, parent, node) == [nodes EXCEPT ![parent].children = <<node>> \o @]

\* Node.add: the node becomes the last child
add(nodes, parent, node) == [nodes EXCEPT ![parent].children = Append(@, node)]

\* Node.getRoot
RECURSIVE getRoot(_, _)
getRoot(nodes, n) == IF nodes[n].parent = 0 THEN n ELSE getRoot(nodes, nodes[n].parent)

\* Node.pathFromRoot: the variation index to follow at each step from the root
RECURSIVE pathFromRoot(_, _)
pathFromRoot(nodes, n) ==
  IF nodes[n].parent = 0 THEN <<>>
  ELSE Append(pathFromRoot(nodes, nodes[n].parent),
              IndexOf(nodes[nodes[n].parent].children, n))

\* Node.getMoveNumber, the while loop: ply, var, move and plyCount after varNum[1..i]
RECURSIVE CountMoves(_, _)
CountMoves(varNum, i) ==
  IF i = 0 THEN [ply |-> 0, var |-> 0, move |-> 0, plyCount |-> TRUE]
  ELSE LET c == CountMoves(varNum, i - 1)
       IN  IF varNum[i] # 0 THEN [c EXCEPT !.var = varNum[i], !.plyCount = FALSE]
           ELSE IF c.plyCount THEN [c EXCEPT !.ply = @ + 1]
           ELSE [c EXCEPT !.move = @ + 1]

\* a faulty text of the counts that counts the moves of the variation from 0
MoveNumberTextFromZero(c) ==
  IF c.var # 0 THEN <<str(c.ply + 1), "-", str(c.var), "-", str(c.move)>>
  ELSE <<str(c.ply)>>

\* the text of the counts: 'ply-var-move' counted from 1, or the ply on the main line
MoveNumberText(c) ==
  IF c.var # 0 THEN <<str(c.ply + 1), "-", str(c.var), "-", str(c.move + 1)>>
  ELSE <<str(c.ply)>>

getMoveNumber(nodes, n) ==
  MoveNumberText(CountMoves(pathFromRoot(nodes, n), Len(pathFromRoot(nodes, n))))

(***************************************************************************)
(* Algorithm: position text and the canonical move token.                  *)
(***************************************************************************)
\* a faulty rotate(-1) that turns the queue the other way
RotateBack(q) == <<q[Len(q)]>> \o SubSeq(q, 1, Len(q) - 1)

\* collections.deque.rotate(-1) and rotate(1)
RotateLeft(q) == Tail(q) \o <<Head(q)>>

RotateRight(q) == <<q[Len(q)]>> \o SubSeq(q, 1, Len(q) - 1)

Emit(s, signal) == [s EXCEPT !.signals = Append(@, signal)]

\* a faulty toChesscomCastling that writes the queen side flags first
toChesscomCastlingQueenFirst(castling) ==
  LET has(tag) == \E i \in 1..Len(castling) : castling[i] = tag
      flag(tag) == IF has(tag) THEN "1" ELSE "0"
  IN  <<"-", flag("rQ"), ",", flag("bQ"), ",", flag("yQ"), ",", flag("gQ"),
        "-", flag("rK"), ",", flag("bK"), ",", flag("yK"), ",", flag("gK")>>

toChesscomCastling(castling) ==
  LET has(tag) == \E i \in 1..Len(castling) : castling[i] = tag
      flag(tag) == IF has(tag) THEN "1" ELSE "0"
  IN  <<"-", flag("rK"), ",", flag("bK"), ",", flag("yK"), ",", flag("gK"),
        "-", flag("rQ"), ",", flag("bQ"), ",", flag("yQ"), ",", flag("gQ")>>

\* the text getFen4 returns
Fen4Text(s) ==
  IF s.chesscom
  THEN <<upper(s.currentPlayer), "-", "0", ",", "0", ",", "0", ",", "0">>
       \o toChesscomCastling(castlingAvailability(s.board))
       \o <<"-", "0", ",", "0", ",", "0", ",", "0", "-", str(s.moveNumber), "-">>
       \o getChesscomFen4(s.board)
  ELSE BoardGetFen4(s.board) \o <<s.currentPlayer, " ">>
       \o castlingAvailability(s.board)
       \o <<" ", "-", " ", str(s.moveNumber), " ", str(s.moveNumber \div 4 + 1)>>

getFen4(s, emitSignal) == IF emitSignal THEN Emit(s, "fen4Generated") ELSE s

\* getPgn4 reads the game, generates the position text and emits the history text
getPgn4(s) == Emit(getFen4(s, TRUE), "pgn4Generated")

strMove(s, fromFile, fromRank, toFile, toRank) ==
  LET piece == getData(s.board, fromFile, fromRank)
      captured == getData(s.board, toFile, toRank)
  IN  <<piece, " ", chr97(fromFile), str(fromRank + 1), " ">>
      \o (IF captured # " " THEN <<captured>> ELSE <<>>)
      \o <<" ", chr97(toFile), str(toRank + 1)>>

\* a faulty _getMove that takes no piece to be captured whatever the length
getMoveNoCapture(moveString) ==
  LET w == split(moveString)
      to == IF Len(w) = 4 THEN w[4] ELSE w[3]
  IN  [fromFile |-> ord97(w[2][1]), fromRank |-> int(w[2][2]) - 1,
       toFile |-> ord97(to[1]), toRank |-> int(to[2]) - 1,
       piece |-> w[1][1],
       captured |-> " "]

\* _getMove: fromFile, fromRank, toFile, toRank, piece, captured of a move token
getMove(moveString) ==
  LET w == split(moveString)
      to == IF Len(w) = 4 THEN w[4] ELSE w[3]
  IN  [fromFile |-> ord97(w[2][1]), fromRank |-> int(w[2][2]) - 1,
       toFile |-> ord97(to[1]), toRank |-> int(to[2]) - 1,
       piece |-> w[1][1],
       captured |-> IF Len(w) = 4 THEN w[3][1] ELSE " "]

(***************************************************************************)
(* Algorithm: move text.                                                   *)
(***************************************************************************)
shortCastle ==
  {<<<<"rK">>, <<"h", "1">>, <<"rR">>, <<"k", "1">>>>,
   <<<<"bK">>, <<"a", "8">>, <<"bR">>, <<"a", "11">>>>,
   <<<<"yK">>, <<"g", "14">>, <<"yR">>, <<"d", "14">>>>,
   <<<<"gK">>, <<"n", "7">>, <<"gR">>, <<"n", "4">>>>}

longCastle ==
  {<<<<"rK">>, <<"h", "1">>, <<"rR">>, <<"d", "1">>>>,
   <<<<"bK">>, <<"a", "8">>, <<"bR">>, <<"a", "4">>>>,
   <<<<"yK">>, <<"g", "14">>, <<"yR">>, <<"k", "14">>>>,
   <<<<"gK">>, <<"n", "7">>, <<"gR">>, <<"n", "11">>>>}

\* ''.join(words)
RECURSIVE Concat(_)
Concat(words) == IF words = <<>> THEN <<>> ELSE Head(words) \o Concat(Tail(words))

toAlgebraic(moveString) ==
  LET w == split(moveString)
      kind == <<Char1(w[1][1])>>
  IN  IF kind = <<"P">>
      THEN (IF Len(w) = 4 THEN Concat(<<w[2], <<"x">>, w[4]>>) ELSE Concat(Tail(w)))
      ELSE IF Len(w) = 4
      THEN (IF w \in shortCastle THEN <<"O", "-", "O">>
            ELSE IF w \in longCastle THEN <<"O", "-", "O", "-", "O">>
            ELSE Concat(<<kind, w[2], <<"x">>, w[4]>>))
      ELSE Concat(<<kind>> \o Tail(w))

toChesscomMove(moveString) ==
  LET w == split(moveString)
      kind == <<Char1(w[1][1])>>
      x(captured) == IF Char1(captured[1]) # "P" THEN <<"x", Char1(captured[1])>> ELSE <<"x">>
  IN  IF kind = <<"P">>
      THEN (IF Len(w) = 4 THEN Concat(<<w[2], x(w[3]), w[4]>>)
            ELSE Concat(<<w[2], <<"-">>, w[3]>>))
      ELSE IF Len(w) = 4
      THEN (IF w \in shortCastle THEN <<"O", "-", "O">>
            ELSE IF w \in longCastle THEN <<"O", "-", "O", "-", "O">>
            ELSE Concat(<<kind, w[2], x(w[3]), w[4]>>))
      ELSE Concat(<<kind, w[2], <<"-">>, w[3]>>)

(***************************************************************************)
(* A dict is modelled as the sequence of its <<key, value>> items in       *)
(* insertion order; assigning to a key it holds replaces the value.        *)
(***************************************************************************)
DictHas(d, key) == \E i \in 1..Len(d) : d[i][1] = key

DictGet(d, key) == d[CHOOSE i \in 1..Len(d) : d[i][1] = key][2]

DictSet(d, key, value) ==
  IF DictHas(d, key)
  THEN LET i == CHOOSE k \in 1..Len(d) : d[k][1] = key
       IN  SubSeq(d, 1, i - 1) \o <<<<key, value>>>> \o SubSeq(d, i + 1, Len(d))
  ELSE Append(d, <<key, value>>)

\* {value: key for key, value in d.items()}: a value of d is a key from the item it
\* first has in d on, with the key of the last item of d that has it
Inverse(d) ==
  LET firsts == SelectSeq([i \in 1..Len(d) |-> i],
                          LAMBDA i : \A j \in 1..(i - 1) : d[j][2] # d[i][2])
      last(v) == CHOOSE i \in 1..Len(d) :
                   d[i][2] = v /\ \A j \in (i + 1)..Len(d) : d[j][2] # v
  IN  [k \in 1..Len(firsts) |-> <<d[firsts[k]][2], d[last(d[firsts[k]][2])][1]>>]

\* moveDict[(index, token)] = node; index += 1
Record(acc, token, node) ==
  [acc EXCEPT !.moveDict = DictSet(@, <<acc.index, token>>, node), !.index = @ + 1]

Dots(n) == SubSeq(<<".", ".", ".">>, 1, n)

Comment(node) == IF node.comment # <<>> THEN <<"{", " ">> \o node.comment \o <<" ", "}", " ">>
                 ELSE <<>>

\* a faulty opening of the text that marks one skipped ply whatever the start
StartNumberOneDot(acc, move) ==
  LET token == <<str((move - 1) \div 4 + 1), ".">>
      a1 == Record([acc EXCEPT !.chesscomMoveText = @ \o token,
                               !.moveText = @ \o token \o <<" ">>], token, 0)
      a2 == Record([a1 EXCEPT !.moveText = @ \o Dots(1)], Dots(1), 0)
  IN  [a2 EXCEPT !.chesscomMoveText = @ \o <<" ">>, !.moveText = @ \o <<" ">>]

\* the number and the dots that open the text of a game that starts in mid-rotation
StartNumber(acc, move) ==
  LET token == <<str((move - 1) \div 4 + 1), ".">>
      a1 == Record([acc EXCEPT !.chesscomMoveText = @ \o token,
                               !.moveText = @ \o token \o <<" ">>], token, 0)
      a2 == Record([a1 EXCEPT !.moveText = @ \o Dots((move - 1) % 4)],
                   Dots((move - 1) % 4), 0)
  IN  [a2 EXCEPT !.chesscomMoveText = @ \o <<" ">>, !.moveText = @ \o <<" ">>]

\* a faulty numbering that takes the last ply of a rotation for its first
MoveNumberTokenLate(acc, move) ==
  IF move % 4 = 0
  THEN LET token == <<str(move \div 4 + 1), ".">>
       IN  Record([acc EXCEPT !.chesscomMoveText = @ \o <<"\n">> \o token \o <<" ">>,
                              !.moveText = @ \o token \o <<" ">>], token, 0)
  ELSE [acc EXCEPT !.chesscomMoveText = @ \o <<".", ".", " ">>]

\* the move number in front of the first ply of a rotation, '..' in chess.com text otherwise
MoveNumberToken(acc, move) ==
  IF (move - 1) % 4 = 0
  THEN LET token == <<str(move \div 4 + 1), ".">>
       IN  Record([acc EXCEPT !.chesscomMoveText = @ \o <<"\n">> \o token \o <<" ">>,
                              !.moveText = @ \o token \o <<" ">>], token, 0)
  ELSE [acc EXCEPT !.chesscomMoveText = @ \o <<".", ".", " ">>]

\* the token of a move, recorded for its node, and the node's comment
MoveToken(nodes, acc, n) ==
  LET token == toAlgebraic(nodes[n].name)
      a1 == Record([acc EXCEPT !.chesscomMoveText = @ \o toChesscomMove(nodes[n].name) \o <<" ">>,
                               !.moveText = @ \o token \o <<" ">>], token, n)
  IN  [a1 EXCEPT !.chesscomMoveText = @ \o Comment(nodes[n]),
                 !.moveText = @ \o Comment(nodes[n])]

\* '(' and the move-number context that open a variation
OpenVariation(acc, move) ==
  LET a0 == IF acc.moveText[Len(acc.moveText) - 1] = ")"
            THEN [acc EXCEPT !.index = @ + 1] ELSE acc
      a1 == Record([a0 EXCEPT !.chesscomMoveText = @ \o <<"(", " ">>,
                              !.moveText = @ \o <<"(", " ">>], <<"(">>, 0)
      number == <<str(move \div 4 + 1)>>
      a2 == Record([a1 EXCEPT !.chesscomMoveText = @ \o number,
                              !.moveText = @ \o number \o <<" ">>], number, 0)
  IN  IF (move - 1) % 4 # 0
      THEN LET a3 == Record([a2 EXCEPT !.moveText = @ \o Dots((move - 1) % 4)],
                            Dots((move - 1) % 4), 0)
           IN  [a3 EXCEPT !.chesscomMoveText = @ \o <<".", ".", " ">>,
                          !.moveText = @ \o <<" ">>]
      ELSE [a2 EXCEPT !.chesscomMoveText = @ \o <<".", " ">>]

RECURSIVE getMoveText(_, _, _, _, _)
RECURSIVE ExpandVariations(_, _, _, _, _)
\* the loop over the variations of one node
ExpandVariations(nodes, acc, variations, move, var) ==
  IF variations = <<>> THEN acc
  ELSE ExpandVariations(nodes,
                        getMoveText(nodes,
                                    MoveToken(nodes, OpenVariation(acc, move),
                                              Head(variations)),
                                    Head(variations), move + 1, var + 1),
                        Tail(variations), move, var)

\* a faulty expansion that leaves the index on the ')' of the last variation
KeepIndex(acc) == acc

\* the index moves on behind the variations of a main move
SkipIndex(acc) == [acc EXCEPT !.index = @ + 1]

\* a faulty leaf that closes the main line as well
CloseVariationAlways(acc, var) ==
  [acc EXCEPT !.chesscomMoveText = @ \o <<")", " ">>,
              !.moveText = @ \o <<")", " ">>,
              !.moveDict = DictSet(@, <<acc.index, <<")">>>>, 0)]

\* ')' closes a variation at its leaf
CloseVariation(acc, var) ==
  IF var # 0
  THEN [acc EXCEPT !.chesscomMoveText = @ \o <<")", " ">>,
                   !.moveText = @ \o <<")", " ">>,
                   !.moveDict = DictSet(@, <<acc.index, <<")">>>>, 0)]
  ELSE acc

\* the main move of a node, its variations, and the text below the main move
Descend(nodes, acc, children, move, var) ==
  IF Len(children) > 1
  THEN getMoveText(nodes,
                   SkipIndex(ExpandVariations(nodes, acc, Tail(children), move, var)),
                   children[1], move + 1, var)
  ELSE getMoveText(nodes, acc, children[1], move + 1, var)

\* the text of the subtree of a node, behind the text of a game start in mid-rotation;
\* the text so far is complete before the subtree is entered (its index is never
\* negative, the first test only makes the evaluation take that order)
Walk(nodes, acc, children, move, var) ==
  IF acc.index < 0 THEN acc
  ELSE IF children # <<>>
  THEN Descend(nodes, MoveToken(nodes, MoveNumberToken(acc, move), children[1]),
               children, move, var)
  ELSE CloseVariation(acc, var)

getMoveText(nodes, acc, node, move, var) ==
  Walk(nodes,
       IF nodes[node].name = RootName /\ move # 1 /\ (move - 1) % 4 # 0
       THEN StartNumber(acc, move) ELSE acc,
       nodes[node].children, move, var)

\* the texts and the dictionaries getMoveText has built become those of the game
InstallText(s, acc) ==
  Emit([s EXCEPT !.chesscomMoveText = acc.chesscomMoveText,
                 !.moveText = acc.moveText,
                 !.moveDict = acc.moveDict,
                 !.index = acc.index,
                 !.inverseMoveDict = Inverse(acc.moveDict)],
       "moveTextChanged")

\* the current move is selected in the move list unless it is the root
SelectCurrent(s) ==
  IF s.nodes[s.currentMove].name # RootName THEN Emit(s, "selectMove") ELSE s

updateMoveText(s) ==
  SelectCurrent(
    InstallText(s, getMoveText(s.nodes,
                               [chesscomMoveText |-> <<>>, moveText |-> <<>>,
                                moveDict |-> <<>>, index |-> 0],
                               getRoot(s.nodes, s.currentMove), s.fenMoveNumber, 0)))

(***************************************************************************)
(* Algorithm: the state of one game and its operations.  An operation      *)
(* maps the state before the call to the state after it; the field         *)
(* signals lists the notifications emitted so far, ret the value returned. *)
(***************************************************************************)
\* a faulty setPlayerQueue that leaves the queue as it is
keepQueue(queue, player) == queue

\* the while loop of setPlayerQueue, k rotations after its start: once the queue has been
\* rotated as often as it is long it is the queue the loop started with, whose front was
\* not the player, and the loop goes round for ever
RECURSIVE rotate(_, _, _)
rotate(q, player, k) ==
  IF q[1] = player THEN [queue |-> q, rotations |-> k, returns |-> TRUE]
  ELSE IF k = Len(q) THEN [queue |-> q, rotations |-> k, returns |-> FALSE]
  ELSE rotate(RotateLeft(q), player, k + 1)

\* the queue setPlayerQueue leaves when it returns
setPlayerQueue(queue, player) == rotate(queue, player, 0).queue

\* a faulty setCurrentPlayer that leaves the queue alone
setCurrentPlayerOnly(s, value) ==
  IF s.currentPlayer = value THEN s
  ELSE Emit([s EXCEPT !.currentPlayer = value], "currentPlayerChanged")

\* a call that never returns: nothing behind it in the calling methods is executed
Hangs(s) == s.ret = "Hangs"

setCurrentPlayer(s, value) ==
  IF s.currentPlayer = value THEN s
  ELSE IF ~rotate(s.playerQueue, value, 0).returns
  THEN [s EXCEPT !.currentPlayer = value, !.ret = "Hangs"]
  ELSE Emit([s EXCEPT !.currentPlayer = value,
                      !.playerQueue = setPlayerQueue(s.playerQueue, value)],
            "currentPlayerChanged")

setResult(s, value) ==
  IF s.result = value THEN s
  ELSE IF s.result = NoResult
  THEN getPgn4(Emit([s EXCEPT !.result = value], "gameOver"))
  ELSE getPgn4([s EXCEPT !.result = value])

\* setupBoard: a new, empty Board replaces the board
setupBoard(s) == Emit([s EXCEPT !.board = NewBoard], "boardChanged")

\* the turn letter and the ply that setBoardState reads from a position text
FenPlayer(fen4, chesscom) ==
  IF chesscom THEN lower(fen4[1]) ELSE SplitOn(fen4, " ")[2][1]

FenPly(fen4, chesscom) ==
  IF chesscom THEN 0
  ELSE LET f == SplitOn(fen4, " ") IN int(f[Len(f) - 1][1])

\* setBoardState behind its call of setCurrentPlayer: the counters and the new root
NewRoot(s, fen4) ==
  IF Hangs(s) THEN s
  ELSE getPgn4([s EXCEPT !.moveNumber = FenPly(fen4, s.chesscom),
                         !.fenMoveNumber = FenPly(fen4, s.chesscom) + 1,
                         \* a new root; the nodes of the old tree are unreachable from it
                         !.nodes = <<[Node(RootName, <<>>, 0) EXCEPT !.fen4 = fen4]>>,
                         !.currentMove = 1,
                         !.chesscomMoveText = <<>>,
                         !.moveText = <<>>,
                         !.moveDict = <<>>,
                         \* the items kept for nodes of the old tree can never be looked up
                         !.inverseMoveDict = SelectSeq(@, LAMBDA item : item[1] = 0)])

setBoardState(s, fen4) ==
  IF fen4 = <<>> THEN s
  ELSE IF Fen4Text(s) = fen4 THEN s
  ELSE LET s1 == setupBoard(s)
           s2 == [s1 EXCEPT !.board = parseFen4(fen4, s.chesscom)]
           s3 == setResult(s2, NoResult)
       IN  NewRoot(setCurrentPlayer(s3, FenPlayer(fen4, s.chesscom)), fen4)

newGame(s) ==
  Emit(setBoardState(s, IF s.chesscom THEN chesscomStartFen4 ELSE startFen4), "fen4Generated")

\* the arrows prevMove and nextMove add, one for each child of the current node
RECURSIVE Arrows(_, _)
Arrows(s, n) == IF n = 0 THEN s ELSE Arrows(Emit(s, "addArrow"), n - 1)

\* a faulty prevMove that does not count the ply down
prevMoveKeepsPly(s) ==
  IF s.nodes[s.currentMove].name = RootName THEN s
  ELSE LET m == getMove(s.nodes[s.currentMove].name)
           s1 == [s EXCEPT !.board = undoMove(s.board, m.fromFile, m.fromRank, m.toFile,
                                              m.toRank, m.piece, m.captured),
                           !.currentMove = s.nodes[s.currentMove].parent,
                           !.playerQueue = RotateRight(@)]
           s2 == setCurrentPlayer(s1, s1.playerQueue[1])
           s3 == Arrows(Emit(s2, "removeHighlight"), Len(s2.nodes[s2.currentMove].children))
           s4 == IF s3.nodes[s3.currentMove].name # RootName
                 THEN Emit(s3, "selectMove") ELSE Emit(s3, "removeMoveSelection")
       IN  getPgn4(getFen4(s4, TRUE))

prevMove(s) ==
  IF s.nodes[s.currentMove].name = RootName THEN s
  ELSE LET m == getMove(s.nodes[s.currentMove].name)
           s1 == [s EXCEPT !.board = undoMove(s.board, m.fromFile, m.fromRank, m.toFile,
                                              m.toRank, m.piece, m.captured),
                           !.currentMove = s.nodes[s.currentMove].parent,
                           !.moveNumber = @ - 1,
                           !.playerQueue = RotateRight(@)]
           s2 == setCurrentPlayer(s1, s1.playerQueue[1])
           s3 == Arrows(Emit(s2, "removeHighlight"), Len(s2.nodes[s2.currentMove].children))
           s4 == IF s3.nodes[s3.currentMove].name # RootName
                 THEN Emit(s3, "selectMove") ELSE Emit(s3, "removeMoveSelection")
       IN  getPgn4(getFen4(s4, TRUE))

\* a faulty nextMove that reports the position also when there is no move to step to
nextMoveLeafNotifies(s, var) ==
  IF s.nodes[s.currentMove].children = <<>> THEN getPgn4(getFen4(s, TRUE))
  ELSE LET next == s.nodes[s.currentMove].children[var + 1]
           m == getMove(s.nodes[next].name)
           s1 == [s EXCEPT !.board = BoardMakeMove(s.board, m.fromFile, m.fromRank,
                                                   m.toFile, m.toRank),
                           !.currentMove = next,
                           !.moveNumber = @ + 1]
           s2 == [Emit(s1, "addHighlight") EXCEPT !.playerQueue = RotateLeft(@)]
           s3 == setCurrentPlayer(s2, s2.playerQueue[1])
           s4 == Arrows(Emit(s3, "removeHighlight"), Len(s3.nodes[next].children))
       IN  getPgn4(getFen4(Emit(s4, "selectMove"), TRUE))

nextMove(s, var) ==
  IF s.nodes[s.currentMove].children = <<>> THEN s
  ELSE LET next == s.nodes[s.currentMove].children[var + 1]
           m == getMove(s.nodes[next].name)
           s1 == [s EXCEPT !.board = BoardMakeMove(s.board, m.fromFile, m.fromRank,
                                                   m.toFile, m.toRank),
                           !.currentMove = next,
                           !.moveNumber = @ + 1]
           s2 == [Emit(s1, "addHighlight") EXCEPT !.playerQueue = RotateLeft(@)]
           s3 == setCurrentPlayer(s2, s2.playerQueue[1])
           s4 == Arrows(Emit(s3, "removeHighlight"), Len(s3.nodes[next].children))
       IN  getPgn4(getFen4(Emit(s4, "selectMove"), TRUE))

\* a faulty firstMove that goes to the root without taking the moves back
firstMoveJumps(s) == [s EXCEPT !.currentMove = 1]

\* a faulty firstMove that drops the stored snapshot of every node it leaves
RECURSIVE firstMoveForgets(_)
firstMoveForgets(s) ==
  IF s.nodes[s.currentMove].name # RootName
  THEN firstMoveForgets(prevMove([s EXCEPT !.nodes[s.currentMove].fen4 = None]))
  ELSE s

RECURSIVE firstMove(_)
firstMove(s) == IF s.nodes[s.currentMove].name # RootName THEN firstMove(prevMove(s)) ELSE s

\* a faulty lastMove that steps forward from the current node instead of from the root
lastMoveFromHere(s) ==
  LET RECURSIVE forward(_)
      forward(t) == IF t.nodes[t.currentMove].children # <<>> THEN forward(nextMove(t, 0))
                    ELSE t
  IN  forward(s)

lastMove(s) ==
  LET RECURSIVE forward(_)
      forward(t) == IF t.nodes[t.currentMove].children # <<>> THEN forward(nextMove(t, 0))
                    ELSE t
  IN  forward(firstMove(s))

(***************************************************************************)
(* Teams: makeMove.                                                        *)
(***************************************************************************)
\* the origin square does not hold a piece of the player to move
NotOwnPiece(s, fromFile, fromRank) ==
  LET fromData == getData(s.board, fromFile, fromRank)
  IN  \/ s.currentPlayer = Red /\ Char0(fromData) # "r"
      \/ s.currentPlayer = Blue /\ Char0(fromData) # "b"
      \/ s.currentPlayer = Yellow /\ Char0(fromData) # "y"
      \/ s.currentPlayer = Green /\ Char0(fromData) # "g"

\* the destination is among the pseudo-legal moves of the piece on the origin square
IsLegal(s, fromFile, fromRank, toFile, toRank) ==
  LET fromData == getData(s.board, fromFile, fromRank)
      color == IndexOf(ColorChars, Char0(fromData))
      piece == IndexOf(PieceChars, Char1(fromData)) + 4
  IN  square(toFile, toRank) \in legalMoves(s.board, piece, square(fromFile, fromRank), color)

\* a faulty entry of a move that adds a node without looking for a child with the token
EnterMoveAlwaysNew(s, moveString) ==
  LET move == Len(s.nodes) + 1
  IN  updateMoveText([s EXCEPT
        !.nodes = Append(add(s.nodes, s.currentMove, move),
                         Node(moveString, <<>>, s.currentMove)),
        !.currentMove = move])

\* the child of the current node the move leads to: a new node unless a child has the token
EnterMove(s, moveString) ==
  LET children == s.nodes[s.currentMove].children
      named == {i \in 1..Len(children) : s.nodes[children[i]].name = moveString}
      move == Len(s.nodes) + 1
  IN  updateMoveText(
        IF named = {}
        THEN [s EXCEPT !.nodes = Append(add(s.nodes, s.currentMove, move),
                                        Node(moveString, <<>>, s.currentMove)),
                       !.currentMove = move]
        ELSE [s EXCEPT
                !.currentMove = children[CHOOSE i \in named : \A j \in named : j <= i]])

\* the player at the head of the queue is to move; the position text is generated
PassTurn(s) == getFen4(setCurrentPlayer(s, s.playerQueue[1]), TRUE)

\* the position text becomes the snapshot of the current node; the move was made
StoreSnapshot(s) == [s EXCEPT !.nodes[s.currentMove].fen4 = Fen4Text(s), !.ret = "True"]

\* a faulty makeMove that counts the ply before it finds the move to be illegal
makeMoveCountsFirst(s, fromFile, fromRank, toFile, toRank) ==
  IF s.currentPlayer = NoPlayer THEN [s EXCEPT !.ret = "False"]
  ELSE IF NotOwnPiece(s, fromFile, fromRank) THEN [s EXCEPT !.ret = "False"]
  ELSE IF ~IsLegal(s, fromFile, fromRank, toFile, toRank)
  THEN [s EXCEPT !.moveNumber = @ + 1, !.ret = "False"]
  ELSE StoreSnapshot(getPgn4(PassTurn(
         [EnterMove(s, strMove(s, fromFile, fromRank, toFile, toRank)) EXCEPT
            !.board = BoardMakeMove(s.board, fromFile, fromRank, toFile, toRank),
            !.moveNumber = @ + 1,
            !.playerQueue = RotateLeft(@)])))

makeMove(s, fromFile, fromRank, toFile, toRank) ==
  IF s.currentPlayer = NoPlayer THEN [s EXCEPT !.ret = "False"]
  ELSE IF NotOwnPiece(s, fromFile, fromRank) THEN [s EXCEPT !.ret = "False"]
  ELSE IF ~IsLegal(s, fromFile, fromRank, toFile, toRank) THEN [s EXCEPT !.ret = "False"]
  ELSE StoreSnapshot(getPgn4(PassTurn(
         [EnterMove(s, strMove(s, fromFile, fromRank, toFile, toRank)) EXCEPT
            !.board = BoardMakeMove(s.board, fromFile, fromRank, toFile, toRank),
            !.moveNumber = @ + 1,
            !.playerQueue = RotateLeft(@)])))

(***************************************************************************)
(* Algorithm: reading the text of a game.  The text is the sequence of its *)
(* tokens with "\n" between the lines; a tag name, a player name, a rating *)
(* and a result are one token each, and a string of one token is held as   *)
(* that token.                                                             *)
(***************************************************************************)
\* str.strip(chars): without the tokens of chars at both ends
Strip(text, chars) ==
  IF \A i \in 1..Len(text) : text[i] \in chars THEN <<>>
  ELSE SubSeq(text,
              CHOOSE i \in 1..Len(text) :
                text[i] \notin chars /\ \A j \in 1..(i - 1) : text[j] \in chars,
              CHOOSE i \in 1..Len(text) :
                text[i] \notin chars /\ \A j \in (i + 1)..Len(text) : text[j] \in chars)

strip(text) == Strip(text, {" "})

\* the string a text of tokens stands for
Text(tokens) == IF Len(tokens) = 1 THEN tokens[1] ELSE tokens

\* the index of the first occurrence of the tokens pat in text, 0 if there is none
Find(text, pat) ==
  LET hits == {i \in 1..(Len(text) - Len(pat) + 1) : SubSeq(text, i, i + Len(pat) - 1) = pat}
  IN  IF hits = {} THEN 0 ELSE CHOOSE i \in hits : \A j \in hits : i <= j

\* str.replace(pat, '')
RECURSIVE replace(_, _)
replace(text, pat) ==
  IF Find(text, pat) = 0 THEN text
  ELSE SubSeq(text, 1, Find(text, pat) - 1)
       \o replace(SubSeq(text, Find(text, pat) + Len(pat), Len(text)), pat)

\* split_: the words between the blanks, a comment in braces being one word
WordEnd(text) ==
  IF text[1] = "{"
  THEN (IF Find(text, <<"}">>) = 0 THEN Len(text) ELSE Find(text, <<"}">>))
  ELSE (IF Find(text, <<" ">>) = 0 THEN Len(text) ELSE Find(text, <<" ">>) - 1)

RECURSIVE split_(_)
Words(text) ==
  IF text = <<>> THEN <<>>
  ELSE <<SubSeq(text, 1, WordEnd(text))>> \o split_(SubSeq(text, WordEnd(text) + 1, Len(text)))

split_(movetext) == Words(strip(movetext))

\* parseChesscomPgn4: a word that starts with '(' is split behind the parenthesis
RECURSIVE SplitParens(_)
SplitParens(tokens) ==
  IF tokens = <<>> THEN <<>>
  ELSE IF Head(tokens)[1] = "(" /\ Len(Head(tokens)) > 1
  THEN <<<<"(">>>> \o SplitParens(<<Tail(Head(tokens))>> \o Tail(tokens))
  ELSE <<Head(tokens)>> \o SplitParens(Tail(tokens))

\* the fields of a tag line: line.strip('[]').split('"')[:-1], the first one stripped
TagFields(fields) == [SubSeq(fields, 1, Len(fields) - 1) EXCEPT ![1] = strip(@)]

TagOf(line) == TagFields(SplitOn(Strip(line, {"[", "]"}), "\""))

\* the attribute a tag sets, by parser
attributes(dialect) ==
  IF dialect
  THEN [Red |-> "redName", RedElo |-> "redRating", Blue |-> "blueName",
        BlueElo |-> "blueRating", Yellow |-> "yellowName", YellowElo |-> "yellowRating",
        Green |-> "greenName", GreenElo |-> "greenRating", Result |-> "result"]
  ELSE [Red |-> "redName", Blue |-> "blueName", Yellow |-> "yellowName",
        Green |-> "greenName", Result |-> "result"]

\* the tag that names the position to go to, by parser
GoToTag(dialect) == IF dialect THEN <<"CurrentMove">> ELSE <<"CurrentPosition">>

isupper(c) ==
  c \in {"A", "B", "C", "D", "E", "F", "G", "H", "I", "J", "K", "L", "M", "N", "O", "P", "Q",
         "R", "S", "T", "U", "V", "W", "X", "Y", "Z"}

\* a faulty cut that takes the number of the destination rank for the rank
CutAtRankNumber(move, i) ==
  <<ord97(move[1]), int(move[2]) - 1, ord97(move[i]), int(move[i + 1])>>

\* the origin and the destination of a move that is not castling: the upper case
\* letters and 'x', '-', '+', '#' are removed and the rest is cut where a letter
\* follows a digit
CutAt(move, i) ==
  <<ord97(move[1]), int(move[2]) - 1, ord97(move[i]), int(move[i + 1]) - 1>>

Cut(move) ==
  CutAt(move, CHOOSE i \in 2..Len(move) :
                /\ ~isdigit(move[i]) /\ isdigit(move[i - 1])
                /\ \A j \in 2..(i - 1) : isdigit(move[j]) \/ ~isdigit(move[j - 1]))

\* a faulty fromAlgebraic with Yellow's rooks on the sides Red's rooks are on
fromAlgebraicMirrored(move, player) ==
  IF move = <<"O", "-", "O">>
  THEN CASE player = Red -> <<7, 0, 10, 0>>
         [] player = Blue -> <<0, 7, 0, 10>>
         [] player = Yellow -> <<6, 13, 10, 13>>
         [] player = Green -> <<13, 6, 13, 3>>
  ELSE IF move = <<"O", "-", "O", "-", "O">>
  THEN CASE player = Red -> <<7, 0, 3, 0>>
         [] player = Blue -> <<0, 7, 0, 3>>
         [] player = Yellow -> <<6, 13, 3, 13>>
         [] player = Green -> <<13, 6, 13, 10>>
  ELSE Cut(SelectSeq(move, LAMBDA c : ~isupper(c) /\ c \notin {"x", "-", "+", "#"}))

fromAlgebraic(move, player) ==
  IF move = <<"O", "-", "O">>
  THEN CASE player = Red -> <<7, 0, 10, 0>>
         [] player = Blue -> <<0, 7, 0, 10>>
         [] player = Yellow -> <<6, 13, 3, 13>>
         [] player = Green -> <<13, 6, 13, 3>>
  ELSE IF move = <<"O", "-", "O", "-", "O">>
  THEN CASE player = Red -> <<7, 0, 3, 0>>
         [] player = Blue -> <<0, 7, 0, 3>>
         [] player = Yellow -> <<6, 13, 10, 13>>
         [] player = Green -> <<13, 6, 13, 10>>
  ELSE Cut(SelectSeq(move, LAMBDA c : ~isupper(c) /\ c \notin {"x", "-", "+", "#"}))

\* fromChesscomMove has the statements of fromAlgebraic
fromChesscomMove(move, player) == fromAlgebraic(move, player)

\* the state of a parser between two tokens: the game, the stack roots, the token
\* before, the position tag read, the movetext gathered, and how the loop goes on;
\* rewound notes for each ')' the node popped and the node the rewinding stopped at,
\* rejected and entered count the move tokens makeMove refused and accepted
Parser(s) ==
  [s |-> s, roots |-> <<>>, prev |-> None, current |-> None, movetext |-> <<>>,
   status |-> "run", rewound |-> <<>>, rejected |-> 0, entered |-> 0, resets |-> 0,
   pending |-> FALSE]

\* cannotReadPgn4.emit(); return False
Fail(p) == [p EXCEPT !.s = Emit(@, "cannotReadPgn4"), !.status = "fail"]

\* a tag line
ReadTag(p, tag, dialect) ==
  IF tag[1] = <<"Variant">> /\ tag[2] = <<"FFA">> THEN Fail(p)
  ELSE IF Len(tag[1]) = 1 /\ tag[1][1] \in DOMAIN attributes(dialect)
  THEN [p EXCEPT !.s = [@ EXCEPT ![attributes(dialect)[tag[1][1]]] = Text(tag[2])]]
  ELSE IF tag[1] = GoToTag(dialect) THEN [p EXCEPT !.current = tag[2]]
  ELSE p

\* token in '..RT#'
Marker(token) == Find(<<".", ".", "R", "T", "#">>, token) # 0

\* token[0].isdigit(): a number, or a result, whose first character is a digit
Numbered(token) == isdigit(token[1]) \/ token[1] \in {"1-0", "0-1", "1/2-1/2"}

\* the tokens that are passed over
Skipped(token, dialect) ==
  IF dialect THEN (Numbered(token) /\ token[Len(token)] = ".") \/ Marker(token)
  ELSE Numbered(token) \/ token[1] = "."

\* a comment: self.currentMove.comment = token[1:-1].strip()
SetComment(s, token) ==
  [s EXCEPT !.nodes[s.currentMove].comment = strip(SubSeq(token, 2, Len(token) - 1))]

\* roots.append(self.currentMove)
Push(p) == [p EXCEPT !.roots = Append(@, p.s.currentMove)]

\* '(': the next move is a variation
OpenParen(p) == Push(IF p.prev = <<")">> THEN p ELSE [p EXCEPT !.s = prevMove(@)])

\* while self.currentMove.name != root.name: self.prevMove(); the loop does not end
\* when the root of the tree is reached and has another name
RECURSIVE Rewind(_, _)
Rewind(s, name) ==
  IF s.nodes[s.currentMove].name = name THEN s
  ELSE IF s.nodes[s.currentMove].parent = 0 THEN [s EXCEPT !.ret = "Hangs"]
  ELSE Rewind(prevMove(s), name)

Noted(p, root) ==
  [p EXCEPT !.rewound = Append(@, <<root, p.s.currentMove>>),
            !.status = IF p.s.ret = "Hangs" THEN "hangs" ELSE @]

\* root = roots.pop() and the rewinding
Rewound(p, root) ==
  Noted([p EXCEPT !.s = Rewind(@, @.nodes[root].name),
                  !.roots = SubSeq(@, 1, Len(@) - 1)], root)

\* if next_ != '(': self.nextMove()
Forward(p, next_) ==
  IF next_ # <<"(">> /\ p.status = "run" THEN [p EXCEPT !.s = nextMove(@, 0)] ELSE p

\* ')': the end of a variation
CloseParen(p, next_) == Forward(Rewound(p, p.roots[Len(p.roots)]), next_)

makeMoveTo(s, m) == makeMove([s EXCEPT !.ret = "None"], m[1], m[2], m[3], m[4])

Counted(p) ==
  IF p.s.ret = "False" THEN [p EXCEPT !.rejected = @ + 1] ELSE [p EXCEPT !.entered = @ + 1]

\* a move token: the value makeMove returns is not used
MoveStep(p, token, dialect) ==
  Counted([p EXCEPT !.s = makeMoveTo(@, IF dialect
                                        THEN fromChesscomMove(token, @.currentPlayer)
                                        ELSE fromAlgebraic(token, @.currentPlayer))])

\* the body of the loop over the tokens
Token(p, token, next_, dialect) ==
  IF Skipped(token, dialect) THEN p
  ELSE IF token[1] = "{" THEN [p EXCEPT !.s = SetComment(@, token)]
  ELSE IF token = <<"(">> THEN OpenParen(p)
  ELSE IF token = <<")">> THEN CloseParen(p, next_)
  ELSE MoveStep(p, token, dialect)

After(p, token) == [p EXCEPT !.prev = token]

\* one turn of the loop over the tokens
Turn(p, tokens, i, dialect) ==
  IF p.status # "run" THEN p
  ELSE After(Token(p, tokens[i], IF i < Len(tokens) THEN tokens[i + 1] ELSE None, dialect),
             tokens[i])

\* the parser behind the first n tokens
RECURSIVE TurnsTo(_, _, _, _)
TurnsTo(p, tokens, n, dialect) ==
  IF n = 0 THEN p ELSE Turn(TurnsTo(p, tokens, n - 1, dialect), tokens, n, dialect)

ParseTokens(p, tokens, dialect) == TurnsTo(p, tokens, Len(tokens), dialect)

\* self.newGame(); roots = []; prev = None
Begin(p) ==
  [p EXCEPT !.s = newGame(@), !.roots = <<>>, !.prev = None, !.resets = @ + 1]

\* parsePgn4: the result that closes the movetext is removed
Unresulted(line) ==
  replace(replace(replace(replace(line, <<" ", "*">>), <<" ", "1-0">>), <<" ", "0-1">>),
          <<" ", "1/2-1/2">>)

\* the movetext to parse: parseChesscomPgn4 gathers the lines of movetext, parsePgn4
\* has the line to parse
Gather(p, line, dialect) ==
  IF dialect THEN [p EXCEPT !.movetext = @ \o line \o <<" ">>]
  ELSE [p EXCEPT !.movetext = Unresulted(line), !.pending = TRUE]

Tokens(movetext, dialect) ==
  IF dialect THEN SplitParens(split_(movetext)) ELSE split_(movetext)

\* the movetext section; parsePgn4 leaves the loop over the lines at the line '*'
Movetext(p, dialect) ==
  IF ~dialect /\ p.movetext = <<"*">> THEN [p EXCEPT !.status = "break"]
  ELSE ParseTokens(p, Tokens(p.movetext, dialect), dialect)

\* the tags section, and the guard of the movetext section
Line(p, line, dialect) ==
  IF line = <<>> THEN p
  ELSE IF line[1] = "[" /\ line[Len(line)] = "]" THEN ReadTag(p, TagOf(line), dialect)
  ELSE IF p.current \in {None, <<>>} THEN Fail(p)
  ELSE Gather(p, line, dialect)

\* the movetext section: parsePgn4 enters it in the loop, with each line of movetext,
\* parseChesscomPgn4 after the loop, with the lines gathered
Section(p, dialect, after) ==
  IF p.status = "run" /\ (IF dialect THEN after ELSE p.pending)
  THEN Movetext(Begin([p EXCEPT !.pending = FALSE]), dialect)
  ELSE p

\* the parser behind the first n lines, and for n above the number of lines behind
\* the loop
RECURSIVE LinesTo(_, _, _, _)
ReadLine(p, line, dialect, after) ==
  IF p.status # "run" THEN p
  ELSE Section(IF after THEN p ELSE Line(p, line, dialect), dialect, after)

LinesTo(p, lines, n, dialect) ==
  IF n = 0 THEN p
  ELSE ReadLine(LinesTo(p, lines, n - 1, dialect),
                IF n > Len(lines) THEN <<>> ELSE strip(lines[n]), dialect,
                n > Len(lines))

ReadLines(p, lines, dialect) == LinesTo(p, lines, Len(lines) + 1, dialect)

\* traverse: the nodes of the tree in breadth-first order
RECURSIVE traverse(_, _, _)
traverse(nodes, order, i) ==
  IF i > Len(order) THEN order
  ELSE traverse(nodes, order \o nodes[order[i]].children, i + 1)

\* the first node with the position text in the order, or the last node of the order
Sought(nodes, order, fen4) ==
  IF \E i \in 1..Len(order) : nodes[order[i]].fen4 = fen4
  THEN order[CHOOSE i \in 1..Len(order) :
               /\ nodes[order[i]].fen4 = fen4
               /\ \A j \in 1..(i - 1) : nodes[order[j]].fen4 # fen4]
  ELSE order[Len(order)]

\* parsePgn4: the path to the node of the CurrentPosition tag
PositionPath(nodes, root, fen4) ==
  pathFromRoot(nodes, Sought(nodes, traverse(nodes, <<root>>, 1), fen4))

\* [int(c) for c in currentMove.split('-')]
Numbers(fields) == [i \in 1..Len(fields) |-> int(fields[i][1])]

Zeros(n) == [i \in 1..n |-> 0]

\* parseChesscomPgn4: nextMove() ply times, or ply - 1 times, then nextMove(variation),
\* then nextMove() move - 1 times
MovePath(number) ==
  IF Len(number) = 1 THEN Zeros(number[1])
  ELSE Zeros(number[1] - 1) \o <<number[2]>> \o Zeros(number[3] - 1)

\* nextMove(var) for each step of a path
RECURSIVE Replay(_, _, _)
Replay(s, path, i) ==
  IF i > Len(path) THEN s ELSE Replay(nextMove(s, path[i]), path, i + 1)

\* the signals that update the names, and in parseChesscomPgn4 the ratings; return True
Notify(s, dialect) ==
  [(IF dialect THEN Emit(Emit(s, "playerNamesChanged"), "playerRatingChanged")
    ELSE Emit(s, "playerNamesChanged")) EXCEPT !.ret = "True"]

\* the game goes from the root to the position the tag names
GoTo(s, current, dialect) ==
  Notify(Replay(s, IF dialect THEN MovePath(Numbers(SplitOn(current, "-")))
                   ELSE PositionPath(s.nodes, s.currentMove, current), 1), dialect)

\* what follows the loop over the lines
Finished(p, dialect) ==
  IF p.status = "fail" THEN [p EXCEPT !.s = [@ EXCEPT !.ret = "False"]]
  ELSE IF p.status = "hangs" THEN p
  ELSE [p EXCEPT !.s = GoTo(firstMove(@), p.current, dialect)]

\* the parser at the end of a call of parsePgn4 or parseChesscomPgn4
Read(s, pgn4, dialect) == Finished(ReadLines(Parser(s), SplitOn(pgn4, "\n"), dialect), dialect)

parsePgn4(s, pgn4) == Read(s, pgn4, FALSE).s

parseChesscomPgn4(s, pgn4) == Read(s, pgn4, TRUE).s

(***************************************************************************)
(* The calls made on the game.                                             *)
(***************************************************************************)
\* a position with few pieces, Yellow to move at ply 2, in which Red may castle king side:
\* '6yK7/6yP7/14/14/14/14/bK13/1bP10gPgK/14/14/14/6rP7/14/7rK2rR3 y rK - 2 1'
sparseFen4 ==
  <<
    "6", "yK", "7", "/", "6", "yP", "7", "/", "14", "/", "14", "/", "14", "/", "14", "/",
    "bK", "13", "/", "1", "bP", "10", "gP", "gK", "/", "14", "/", "14", "/", "14", "/", "6",
    "rP", "7", "/", "14", "/", "7", "rK", "2", "rR", "3", " ", "y", " ", "rK", " ", "-", " ",
    "2", " ", "1" >>

\* the same position in dialect B:
\* 'Y-0,0,0,0-1,0,0,0-0,0,0,0-0,0,0,0-2-6,yK,7/6,yP,7/14/14/14/1'
\* '4/bK,13/1,bP,10,gP,gK/14/14/14/6,rP,7/14/7,rK,2,rR,3'
sparseChesscomFen4 ==
  <<
    "Y", "-", "0", ",", "0", ",", "0", ",", "0", "-", "1", ",", "0", ",", "0", ",", "0", "-",
    "0", ",", "0", ",", "0", ",", "0", "-", "0", ",", "0", ",", "0", ",", "0", "-", "2", "-",
    "6", ",", "yK", ",", "7", "/", "6", ",", "yP", ",", "7", "/", "14", "/", "14", "/", "14",
    "/", "14", "/", "bK", ",", "13", "/", "1", ",", "bP", ",", "10", ",", "gP", ",", "gK",
    "/", "14", "/", "14", "/", "14", "/", "6", ",", "rP", ",", "7", "/", "14", "/", "7", ",",
    "rK", ",", "2", ",", "rR", ",", "3" >>

\* the position texts setBoardState is called with, by dialect
FenInputs(dialect) == IF dialect THEN {sparseChesscomFen4} ELSE {sparseFen4}

\* the moves makeMove is called with: <<fromFile, fromRank, toFile, toRank>>
MoveInputs ==
  { <<7, 1, 7, 2>>,     \* h2-h3
    <<6, 2, 6, 3>>,     \* g3-g4
    <<7, 0, 7, 1>>,     \* Kh1-h2
    <<7, 0, 10, 0>>,    \* Kh1 onto the rook on k1
    <<1, 6, 2, 6>>,     \* b7-c7
    <<6, 12, 6, 11>>,   \* g13-g12
    <<12, 6, 11, 6>> }  \* m7-l7

\* three plies of a main line:
\* '1. Nj1i3 b7c7 g13g12 '
mainText ==
  <<
    "1", ".", " ", "N", "j", "1", "i", "3", " ", "b", "7", "c", "7", " ", "g", "13", "g",
    "12", " " >>

\* a line of nine plies in which Red plays Nj1-i3 at ply 1 and again at ply 9:
\* '1. Nj1i3 b6c6 g13g12 m7l7 2. Ni3j1 b7c7 g12g11 l7k7 3. Nj1i3 '
lineText ==
  <<
    "1", ".", " ", "N", "j", "1", "i", "3", " ", "b", "6", "c", "6", " ", "g", "13", "g",
    "12", " ", "m", "7", "l", "7", " ", "2", ".", " ", "N", "i", "3", "j", "1", " ", "b",
    "7", "c", "7", " ", "g", "12", "g", "11", " ", "l", "7", "k", "7", " ", "3", ".",
    " ", "N", "j", "1", "i", "3", " " >>

\* the line of nine plies as a variation at ply 2, the main line going on behind it:
\* '1. Nj1i3 b7c7 ( 1 . b6c6 g13g12 m7l7 2. Ni3j1 b7c7 g12g11 l7k7 3. Nj1i3 ) g13g12 '
variationText ==
  <<
    "1", ".", " ", "N", "j", "1", "i", "3", " ", "b", "7", "c", "7", " ", "(", " ", "1",
    " ", ".", " ", "b", "6", "c", "6", " ", "g", "13", "g", "12", " ", "m", "7", "l",
    "7", " ", "2", ".", " ", "N", "i", "3", "j", "1", " ", "b", "7", "c", "7", " ", "g",
    "12", "g", "11", " ", "l", "7", "k", "7", " ", "3", ".", " ", "N", "j", "1", "i",
    "3", " ", ")", " ", "g", "13", "g", "12", " " >>

\* a pawn move of three squares, which makeMove refuses, and a move behind it:
\* '1. h2h5 b7c7 '
refusedText ==
  <<
    "1", ".", " ", "h", "2", "h", "5", " ", "b", "7", "c", "7", " " >>

\* one ply:
\* '1. h2h3 '
oneMoveText ==
  <<
    "1", ".", " ", "h", "2", "h", "3", " " >>

\* a move of Yellow, who is to move in the sparse position:
\* '1 .. g13g12 '
sparseMoveText ==
  <<
    "1", " ", ".", ".", " ", "g", "13", "g", "12", " " >>

\* two plies and a variation at ply 2, in dialect B:
\* '1. h2-h3 .. b7-c7 ( 1.. b6-c6 ) '
chesscomVariationText ==
  <<
    "1", ".", " ", "h", "2", "-", "h", "3", " ", ".", ".", " ", "b", "7", "-", "c", "7",
    " ", "(", " ", "1", ".", ".", " ", "b", "6", "-", "c", "6", " ", ")", " " >>

\* a pawn move of three squares and a move behind it, in dialect B:
\* '1. h2-h5 .. b7-c7 '
chesscomRefusedText ==
  <<
    "1", ".", " ", "h", "2", "-", "h", "5", " ", ".", ".", " ", "b", "7", "-", "c", "7",
    " " >>

\* a tag line
TagLine(name, value) == <<"[", name, " ", "\"">> \o value \o <<"\"", "]", "\n">>

\* a tag line for a name or a rating that is known
KnownLine(name, value) == IF value # "?" THEN TagLine(name, <<value>>) ELSE <<>>

\* the text getPgn4 emits in dialect A, without the tags Site, Date, TimeControl,
\* PlyCount and CurrentMove, which parsePgn4 passes over
Pgn4Text(s) ==
  TagLine("Variant", <<"Teams">>)
  \o KnownLine("Red", s.redName) \o KnownLine("RedElo", s.redRating)
  \o KnownLine("Blue", s.blueName) \o KnownLine("BlueElo", s.blueRating)
  \o KnownLine("Yellow", s.yellowName) \o KnownLine("YellowElo", s.yellowRating)
  \o KnownLine("Green", s.greenName) \o KnownLine("GreenElo", s.greenRating)
  \o (IF s.nodes[getRoot(s.nodes, s.currentMove)].fen4 # startFen4
      THEN TagLine("SetUp", <<"1">>)
           \o TagLine("StartFen4", s.nodes[getRoot(s.nodes, s.currentMove)].fen4)
      ELSE <<>>)
  \o TagLine("CurrentPosition", Fen4Text(s)) \o <<"\n">>
  \o s.moveText \o <<s.result>>

\* the texts parsePgn4 is called with
\* names, a result, the start position as the position to go to, and three plies
mainGame ==
  TagLine("Red", <<"Alice">>) \o TagLine("Result", <<"1-0">>)
  \o TagLine("CurrentPosition", startFen4) \o <<"\n">> \o mainText \o <<"1-0">>

\* nine plies; no node has the position to go to
lineGame == TagLine("CurrentPosition", <<"-">>) \o <<"\n">> \o lineText \o <<"*">>

variationGame == TagLine("CurrentPosition", <<"-">>) \o <<"\n">> \o variationText \o <<"*">>

\* the variant FFA is named behind a name and a result
ffaGame ==
  TagLine("Red", <<"Alice">>) \o TagLine("Result", <<"1-0">>) \o TagLine("Variant", <<"FFA">>)
  \o TagLine("CurrentPosition", <<"-">>) \o <<"\n">> \o oneMoveText \o <<"*">>

\* the variant is named as the game class FFA names it
freeForAllGame ==
  TagLine("Variant", <<"Free-For-All">>) \o TagLine("CurrentPosition", <<"-">>)
  \o <<"\n">> \o oneMoveText \o <<"*">>

\* the movetext comes before the tag CurrentPosition
untaggedGame ==
  TagLine("Red", <<"Alice">>) \o <<"\n">> \o oneMoveText \o <<"*", "\n">>
  \o TagLine("CurrentPosition", <<"-">>)

refusedGame == TagLine("CurrentPosition", <<"-">>) \o <<"\n">> \o refusedText \o <<"*">>

\* a game that starts from the sparse position
setUpGame ==
  TagLine("SetUp", <<"1">>) \o TagLine("StartFen4", sparseFen4)
  \o TagLine("Result", <<"1-0">>) \o TagLine("CurrentPosition", <<"-">>)
  \o <<"\n">> \o sparseMoveText \o <<"1-0">>

Pgn4Inputs ==
  {mainGame, lineGame, variationGame, ffaGame, freeForAllGame, untaggedGame, refusedGame,
   setUpGame}

\* the texts parseChesscomPgn4 is called with
chesscomGame ==
  TagLine("Red", <<"Alice">>) \o TagLine("RedElo", <<"1500">>)
  \o TagLine("Result", <<"1-0">>) \o TagLine("CurrentMove", <<"2", "-", "1", "-", "1">>)
  \o <<"\n">> \o chesscomVariationText

chesscomFfaGame ==
  TagLine("Red", <<"Alice">>) \o TagLine("RedElo", <<"1500">>)
  \o TagLine("Variant", <<"FFA">>) \o TagLine("CurrentMove", <<"1">>)
  \o <<"\n">> \o chesscomVariationText

chesscomUntaggedGame ==
  TagLine("Result", <<"1-0">>) \o <<"\n">> \o chesscomVariationText \o <<"\n">>
  \o TagLine("CurrentMove", <<"1">>)

chesscomRefusedGame ==
  TagLine("CurrentMove", <<"1">>) \o <<"\n">> \o chesscomRefusedText

ChesscomPgn4Inputs ==
  {chesscomGame, chesscomFfaGame, chesscomUntaggedGame, chesscomRefusedGame}

\* three plies on one line of movetext, and on two:
\* '1. h2h3 b7c7 g13g12 *'
joinedGame ==
  TagLine("CurrentPosition", <<"-">>) \o <<"\n">>
  \o <<"1", ".", " ", "h", "2", "h", "3", " ", "b", "7", "c", "7", " ", "g", "13", "g", "12",
       " ", "*">>

\* '1. h2h3 b7c7' and 'g13g12 *'
splitGame ==
  TagLine("CurrentPosition", <<"-">>) \o <<"\n">>
  \o <<"1", ".", " ", "h", "2", "h", "3", " ", "b", "7", "c", "7", "\n", "g", "13", "g", "12",
       " ", "*">>

\* the same in dialect B:
\* '1. h2-h3 .. b7-c7 .. g13-g12 '
chesscomJoinedGame ==
  TagLine("CurrentMove", <<"1">>) \o <<"\n">>
  \o <<"1", ".", " ", "h", "2", "-", "h", "3", " ", ".", ".", " ", "b", "7", "-", "c", "7",
       " ", ".", ".", " ", "g", "13", "-", "g", "12", " ">>

\* '1. h2-h3 .. b7-c7' and '.. g13-g12 '
chesscomSplitGame ==
  TagLine("CurrentMove", <<"1">>) \o <<"\n">>
  \o <<"1", ".", " ", "h", "2", "-", "h", "3", " ", ".", ".", " ", "b", "7", "-", "c", "7",
       "\n", ".", ".", " ", "g", "13", "-", "g", "12", " ">>

\* texts whose movetext is on one line and on two
LineInputs(dialect) ==
  IF dialect THEN {chesscomJoinedGame, chesscomSplitGame} ELSE {joinedGame, splitGame}

\* the moves makeMove is called with between the readings of a text
PlayInputs ==
  { <<7, 1, 7, 2>>,     \* h2-h3
    <<1, 6, 2, 6>>,     \* b7-c7
    <<1, 5, 2, 5>>,     \* b6-c6
    <<6, 12, 6, 11>> }  \* g13-g12

VARIABLES
  chesscom,         \* the setting 'chesscom': dialect B is active
  board,            \* Algorithm.board
  result,           \* Algorithm.result
  currentPlayer,    \* Algorithm.currentPlayer
  moveNumber,       \* Algorithm.moveNumber, the ply counter
  nodes,            \* the Node objects of the move tree
  currentMove,      \* Algorithm.currentMove
  playerQueue,      \* Algorithm.playerQueue
  chesscomMoveText, \* Algorithm.chesscomMoveText
  moveText,         \* Algorithm.moveText
  moveDict,         \* Algorithm.moveDict
  inverseMoveDict,  \* Algorithm.inverseMoveDict
  index,            \* Algorithm.index
  fenMoveNumber,    \* Algorithm.fenMoveNumber
  redName,          \* Algorithm.redName
  blueName,         \* Algorithm.blueName
  yellowName,       \* Algorithm.yellowName
  greenName,        \* Algorithm.greenName
  redRating,        \* Algorithm.redRating
  blueRating,       \* Algorithm.blueRating
  yellowRating,     \* Algorithm.yellowRating
  greenRating,      \* Algorithm.greenRating
  signals,          \* the notifications the last call emitted, in order
  ret,              \* the value the last call returned
  op,               \* the last call: its name, the node it was made at, the move it entered
  parsed,           \* the text the last call read and how its parser ended
  streak,           \* the movers of the latest successive successful makeMove calls
  other             \* the attributes of a second game object

game ==
  <<chesscom, board, result, currentPlayer, moveNumber, nodes, currentMove, playerQueue,
    chesscomMoveText, moveText, moveDict, inverseMoveDict, index, fenMoveNumber,
    redName, blueName, yellowName, greenName, redRating, blueRating, yellowRating,
    greenRating>>

vars == <<game, signals, ret, op, parsed, streak, other>>

\* the state a call starts from: nothing emitted yet, nothing returned
St ==
  [chesscom |-> chesscom, board |-> board, result |-> result,
   currentPlayer |-> currentPlayer, moveNumber |-> moveNumber, nodes |-> nodes,
   currentMove |-> currentMove, playerQueue |-> playerQueue,
   chesscomMoveText |-> chesscomMoveText, moveText |-> moveText, moveDict |-> moveDict,
   inverseMoveDict |-> inverseMoveDict, index |-> index, fenMoveNumber |-> fenMoveNumber,
   redName |-> redName, blueName |-> blueName, yellowName |-> yellowName,
   greenName |-> greenName, redRating |-> redRating, blueRating |-> blueRating,
   yellowRating |-> yellowRating, greenRating |-> greenRating,
   signals |-> <<>>, ret |-> "None"]

\* the state a call leaves
Becomes(s) ==
  /\ chesscom' = s.chesscom
  /\ board' = s.board
  /\ result' = s.result
  /\ currentPlayer' = s.currentPlayer
  /\ moveNumber' = s.moveNumber
  /\ nodes' = s.nodes
  /\ currentMove' = s.currentMove
  /\ playerQueue' = s.playerQueue
  /\ chesscomMoveText' = s.chesscomMoveText
  /\ moveText' = s.moveText
  /\ moveDict' = s.moveDict
  /\ inverseMoveDict' = s.inverseMoveDict
  /\ index' = s.index
  /\ fenMoveNumber' = s.fenMoveNumber
  /\ redName' = s.redName
  /\ blueName' = s.blueName
  /\ yellowName' = s.yellowName
  /\ greenName' = s.greenName
  /\ redRating' = s.redRating
  /\ blueRating' = s.blueRating
  /\ yellowRating' = s.yellowRating
  /\ greenRating' = s.greenRating
  /\ signals' = s.signals
  /\ ret' = s.ret

\* the call just made; move is the input of a makeMove that was accepted
NoParse ==
  [pgn4 |-> <<>>, status |-> "none", rewound |-> <<>>, rejected |-> 0, entered |-> 0,
   resets |-> 0, reads |-> 0]

Called(name, move) ==
  /\ op' = [name |-> name, at |-> currentMove, move |-> move]
  /\ parsed' = [NoParse EXCEPT !.reads = parsed.reads]
  /\ other' = other

\* the latest four entries of a run of movers
Latest(run) == IF Len(run) > 4 THEN SubSeq(run, Len(run) - 3, Len(run)) ELSE run

\* Algorithm.__init__ and Teams.__init__, but for the board
Constructed ==
  /\ chesscom \in BOOLEAN
  /\ result = NoResult
  /\ currentPlayer = NoPlayer
  /\ moveNumber = 0
  /\ nodes = <<[Node(RootName, <<>>, 0) EXCEPT !.fen4 = startFen4]>>
  /\ currentMove = 1
  /\ playerQueue = <<Red, Blue, Yellow, Green>>
  /\ chesscomMoveText = <<>>
  /\ moveText = <<>>
  /\ moveDict = <<>>
  /\ inverseMoveDict = <<>>
  /\ index = 0
  /\ fenMoveNumber = 1
  /\ redName = NoPlayer
  /\ blueName = NoPlayer
  /\ yellowName = NoPlayer
  /\ greenName = NoPlayer
  /\ redRating = "?"
  /\ blueRating = "?"
  /\ yellowRating = "?"
  /\ greenRating = "?"
  /\ signals = <<>>
  /\ ret = "None"
  /\ parsed = NoParse
  /\ streak = <<>>

\* the state of a game just constructed, with a dialect setting
FreshGame(dialect) ==
  [chesscom |-> dialect, board |-> NewBoard, result |-> NoResult,
   currentPlayer |-> NoPlayer, moveNumber |-> 0,
   nodes |-> <<[Node(RootName, <<>>, 0) EXCEPT !.fen4 = startFen4]>>,
   currentMove |-> 1, playerQueue |-> <<Red, Blue, Yellow, Green>>,
   chesscomMoveText |-> <<>>, moveText |-> <<>>, moveDict |-> <<>>,
   inverseMoveDict |-> <<>>, index |-> 0, fenMoveNumber |-> 1,
   redName |-> NoPlayer, blueName |-> NoPlayer, yellowName |-> NoPlayer,
   greenName |-> NoPlayer, redRating |-> "?", blueRating |-> "?", yellowRating |-> "?",
   greenRating |-> "?", signals |-> <<>>, ret |-> "None"]

\* playerQueue is an attribute of the class, not of a game object: the attributes of an
\* object hold no queue
Attributes(s) == [s EXCEPT !.playerQueue = <<>>]

Init ==
  /\ Constructed
  /\ board = NewBoard
  /\ op = [name |-> "init", at |-> 1, move |-> <<>>]
  /\ other = Attributes(FreshGame(chesscom))

NewGame ==
  /\ Becomes(newGame(St))
  /\ Called("newGame", <<>>)
  /\ streak' = <<>>

SetBoardState ==
  \E fen4 \in FenInputs(chesscom) :
    /\ Becomes(setBoardState(St, fen4))
    /\ Called("setBoardState", <<>>)
    /\ streak' = <<>>

\* a makeMove call with input m has left state s
Moved(s, m) ==
  /\ Len(s.nodes) <= MaxNodes + 1
  /\ Becomes(s)
  /\ Called("makeMove", IF s.ret = "True" THEN m ELSE <<>>)
  /\ streak' = IF s.ret = "True" THEN Latest(Append(streak, currentPlayer)) ELSE <<>>

MakeMove ==
  \E m \in MoveInputs : Moved(makeMove(St, m[1], m[2], m[3], m[4]), m)

PrevMove ==
  /\ Becomes(prevMove(St))
  /\ Called("prevMove", <<>>)
  /\ streak' = <<>>

\* nextMove(var) for each child of the current node, and nextMove() on a leaf
NextMove ==
  \E var \in 0..(IF nodes[currentMove].children = <<>> THEN 0
                 ELSE Len(nodes[currentMove].children) - 1) :
    /\ Becomes(nextMove(St, var))
    /\ Called("nextMove", <<>>)
    /\ streak' = <<>>

FirstMove ==
  /\ Becomes(firstMove(St))
  /\ Called("firstMove", <<>>)
  /\ streak' = <<>>

LastMove ==
  /\ Becomes(lastMove(St))
  /\ Called("lastMove", <<>>)
  /\ streak' = <<>>

Next ==
  \/ NewGame
  \/ SetBoardState
  \/ MakeMove
  \/ PrevMove
  \/ NextMove
  \/ FirstMove
  \/ LastMove

Spec == Init /\ [][Next]_vars

\* the game played from the start position by entering moves and stepping through them
NextPlay ==
  \/ NewGame
  \/ MakeMove
  \/ PrevMove
  \/ NextMove

SpecPlay == Init /\ [][NextPlay]_vars

\* a text has been read, the parser ending as p
Parsed(p, name, pgn4) ==
  /\ Becomes(p.s)
  /\ op' = [name |-> name, at |-> currentMove, move |-> <<>>]
  /\ parsed' = [pgn4 |-> pgn4, status |-> p.status, rewound |-> p.rewound,
                rejected |-> p.rejected, entered |-> p.entered, resets |-> p.resets,
                reads |-> parsed.reads + 1]
  /\ streak' = <<>>
  /\ other' = other

\* the texts the parser of a dialect is called with; that of dialect A is also called
\* with the text the game itself has emitted
Readings(s) ==
  IF s.chesscom THEN ChesscomPgn4Inputs ELSE Pgn4Inputs \cup {Pgn4Text(s)}

\* parsePgn4, or parseChesscomPgn4 when dialect B is active
ParsePgn4 ==
  /\ parsed.reads < MaxReads
  /\ \E pgn4 \in Readings(St) :
       Parsed(Read(St, pgn4, chesscom),
              IF chesscom THEN "parseChesscomPgn4" ELSE "parsePgn4", pgn4)

\* a makeMove call with input m has left state s, with MaxPlayed moves in the tree
Played(s, m) ==
  /\ Len(s.nodes) <= MaxPlayed + 1
  /\ Moved(s, m)

PlayMove ==
  \E m \in PlayInputs : Played(makeMove(St, m[1], m[2], m[3], m[4]), m)

\* playing and reading texts
NextParse == NewGame \/ PlayMove \/ PrevMove \/ ParsePgn4

SpecParse == Init /\ [][NextParse]_vars

\* the position of sparseFen4 as the position after ply plies: the player to move and
\* the counters of the text are those of the ply
StartAt(ply) ==
  [sparseFen4 EXCEPT ![Len(sparseFen4) - 8] = <<Red, Blue, Yellow, Green>>[(ply % 4) + 1],
                     ![Len(sparseFen4) - 2] = str(ply),
                     ![Len(sparseFen4)] = str((ply \div 4) + 1)]

\* a move of each color in that position, and a second one of Red and of Green:
\* <<fromFile, fromRank, toFile, toRank>>
TextMoves ==
  { <<6, 2, 6, 3>>,     \* g3-g4
    <<7, 0, 7, 1>>,     \* Kh1-h2
    <<1, 6, 2, 6>>,     \* b7-c7
    <<6, 12, 6, 11>>,   \* g13-g12
    <<12, 6, 11, 6>>,   \* m7-l7
    <<13, 6, 13, 7>> }  \* Kn7-n8

\* setBoardState with the position after one of the first plies, in dialect A
LoadText ==
  /\ ~chesscom
  /\ \E ply \in 0..MaxStart :
       /\ Becomes(setBoardState(St, StartAt(ply)))
       /\ Called("setBoardState", <<>>)
       /\ streak' = <<>>

\* a makeMove call with input m has left state s, with MaxText moves in the tree
Written(s, m) ==
  /\ Len(s.nodes) <= MaxText + 1
  /\ Moved(s, m)

WriteMove ==
  \E m \in TextMoves : Written(makeMove(St, m[1], m[2], m[3], m[4]), m)

\* games loaded in mid-rotation, with main lines and variations entered
NextText == LoadText \/ WriteMove \/ PrevMove

SpecText == Init /\ [][NextText]_vars

\* the squares, the moving pieces and the contents of the destination of the moves whose
\* tokens are converted: the first and the last file and rank, ranks of two digits, every
\* kind of piece, and a pawn or a piece or nothing on the destination
TokenSquares == {<<0, 3>>, <<7, 0>>, <<6, 8>>, <<4, 9>>, <<13, 13>>, <<10, 13>>}

TokenPieces == {"rP", "rK", "bN", "bR", "yB", "yQ", "gP", "gK"}

TokenCaptured == {" ", "rP", "bQ", "yR", "gN"}

\* the king of colour c on its home square and its rook of side s on the rook's
CastlingOf(c, s) ==
  <<fileOf(KingHomeOf(c)), rankOf(KingHomeOf(c)),
    fileOf(RookHomeOf(c, s)), rankOf(RookHomeOf(c, s)),
    ColorChars[c + 1] \o "K", ColorChars[c + 1] \o "R">>

\* a move as origin file and rank, destination file and rank, the piece on the origin
\* and the content of the destination
TokenInputs ==
  {<<from[1], from[2], to[1], to[2], piece, captured>> :
     from \in TokenSquares, to \in TokenSquares, piece \in TokenPieces,
     captured \in TokenCaptured}
  \cup {CastlingOf(c, s) : c \in {RED, BLUE, YELLOW, GREEN}, s \in {QUEENSIDE, KINGSIDE}}

\* a board with nothing on it but the piece to move and the content of the destination
Occupied(m) ==
  [NewBoard EXCEPT !.data = [[@ EXCEPT ![square(m[3], m[4]) + 1] = m[6]]
                               EXCEPT ![square(m[1], m[2]) + 1] = m[5]]]

InitTokens ==
  \E m \in TokenInputs :
    /\ m[1] # m[3] \/ m[2] # m[4]
    /\ Constructed
    /\ board = Occupied(m)
    /\ op = [name |-> "init", at |-> 1, move |-> m]
    /\ other = Attributes(FreshGame(chesscom))

\* a function of the move token has been applied after the call named before, with value
Applied(before, name, value) ==
  /\ op.name = before
  /\ op' = [op EXCEPT !.name = name]
  /\ ret' = value
  /\ UNCHANGED <<game, signals, parsed, streak, other>>

StrMove == Applied("init", "strMove", strMove(St, op.move[1], op.move[2], op.move[3], op.move[4]))

GetMove == Applied("strMove", "_getMove", getMove(ret))

ToAlgebraic == Applied("strMove", "toAlgebraic", toAlgebraic(ret))

ToChesscomMove == Applied("strMove", "toChesscomMove", toChesscomMove(ret))

\* the text is resolved for the player whose piece moves
FromAlgebraic ==
  Applied("toAlgebraic", "fromAlgebraic", fromAlgebraic(ret, Char0(op.move[5])))

FromChesscomMove ==
  Applied("toChesscomMove", "fromChesscomMove", fromChesscomMove(ret, Char0(op.move[5])))

NextTokens ==
  \/ StrMove
  \/ GetMove
  \/ ToAlgebraic
  \/ ToChesscomMove
  \/ FromAlgebraic
  \/ FromChesscomMove

SpecTokens == InitTokens /\ [][NextTokens]_vars

\* the state a call on the second game starts from: its attributes and the queue of the
\* class
OtherSt == [other EXCEPT !.playerQueue = playerQueue]

\* the state a call on the second game leaves
OtherBecomes(s, name, move) ==
  /\ other' = Attributes([s EXCEPT !.signals = <<>>, !.ret = "None"])
  /\ playerQueue' = s.playerQueue
  /\ signals' = s.signals
  /\ ret' = s.ret
  /\ op' = [name |-> name, at |-> other.currentMove, move |-> move]
  /\ parsed' = [NoParse EXCEPT !.reads = parsed.reads]
  /\ streak' = <<>>
  /\ UNCHANGED <<chesscom, board, result, currentPlayer, moveNumber, nodes, currentMove,
                 chesscomMoveText, moveText, moveDict, inverseMoveDict, index,
                 fenMoveNumber, redName, blueName, yellowName, greenName, redRating,
                 blueRating, yellowRating, greenRating>>

OtherNewGame == OtherBecomes(newGame(OtherSt), "other.newGame", <<>>)

\* a makeMove call with input m has left state s, with MaxShared moves in the tree
OtherPlayed(s, m) ==
  /\ Len(s.nodes) <= MaxShared + 1
  /\ OtherBecomes(s, "other.makeMove", IF s.ret = "True" THEN m ELSE <<>>)

OtherPlayMove ==
  \E m \in PlayInputs : OtherPlayed(makeMove(OtherSt, m[1], m[2], m[3], m[4]), m)

OtherPrevMove == OtherBecomes(prevMove(OtherSt), "other.prevMove", <<>>)

OtherNextMove == OtherBecomes(nextMove(OtherSt, 0), "other.nextMove", <<>>)

SharedPlayed(s, m) ==
  /\ Len(s.nodes) <= MaxShared + 1
  /\ Moved(s, m)

SharedPlayMove ==
  \E m \in PlayInputs : SharedPlayed(makeMove(St, m[1], m[2], m[3], m[4]), m)

\* parsePgn4, or parseChesscomPgn4 when dialect B is active, with movetext of one line
\* and of two
ParseLines ==
  /\ parsed.reads < MaxReads
  /\ \E pgn4 \in LineInputs(chesscom) :
       Parsed(Read(St, pgn4, chesscom),
              IF chesscom THEN "parseChesscomPgn4" ELSE "parsePgn4", pgn4)

\* playing and reading movetext of several lines
NextLines == NewGame \/ PlayMove \/ PrevMove \/ ParseLines

SpecLines == Init /\ [][NextLines]_vars

\* the place of the turn letter in a position text
TurnPlace(fen4, dialect) ==
  IF dialect THEN 1
  ELSE 1 + CHOOSE i \in 1..Len(fen4) : fen4[i] = " " /\ \A j \in 1..(i - 1) : fen4[j] # " "

\* the turn letters of the position texts setBoardState is called with: those of the four
\* colors, the letter of a color as the other dialect writes it, and a letter of no color
TurnLetters(dialect) ==
  IF dialect THEN {"R", "B", "Y", "G", "r", "W"} ELSE {"r", "b", "y", "g", "R", "w"}

TurnInputs(dialect) ==
  { [fen4 EXCEPT ![TurnPlace(fen4, dialect)] = letter] :
      fen4 \in FenInputs(dialect), letter \in TurnLetters(dialect) }

\* setBoardState with a position text of any turn letter
LoadPosition ==
  \E fen4 \in TurnInputs(chesscom) :
    /\ Becomes(setBoardState(St, fen4))
    /\ Called("setBoardState", <<fen4[TurnPlace(fen4, chesscom)]>>)
    /\ streak' = <<>>

\* the last call has returned: a caller that waits in a call makes no other
Returned == ret # "Hangs"

\* positions loaded and played on
NextLoad ==
  \/ Returned /\ NewGame
  \/ Returned /\ LoadPosition
  \/ Returned /\ PlayMove
  \/ Returned /\ PrevMove

SpecLoad == Init /\ [][NextLoad]_vars

\* two games of one process, called in any order
NextTwo ==
  \/ NewGame
  \/ SharedPlayMove
  \/ PrevMove
  \/ NextMove
  \/ OtherNewGame
  \/ OtherPlayMove
  \/ OtherPrevMove
  \/ OtherNextMove

SpecTwo == Init /\ [][NextTwo]_vars


(***************************************************************************)
(* Teams.makeMove: rejection and success.                                  *)
(***************************************************************************)
\* makeMove(m) is rejected in the present state: nobody is to move, the origin square
\* holds no piece of the player to move, or the destination is not among its moves
Rejects(m) ==
  \/ currentPlayer = NoPlayer
  \/ NotOwnPiece(St, m[1], m[2])
  \/ ~IsLegal(St, m[1], m[2], m[3], m[4])

\* a step that is a makeMove call which returned False, resp. True
RejectedStep == op'.name = "makeMove" /\ ret' = "False"
AcceptedStep == op'.name = "makeMove" /\ ret' = "True"

\* the color that follows a color in the order Red, Blue, Yellow, Green, Red
Follows(player) ==
  CASE player = Red -> Blue
    [] player = Blue -> Yellow
    [] player = Yellow -> Green
    [] player = Green -> Red

\* C1: a rejected makeMove returns False, leaves the tree, the current node, the board,
\* the ply counter, the current player, the turn queue and the stored move text as they
\* were, and emits no notification; every input the guards reject is answered so.
C1_RejectedMoveChangesNothing ==
  /\ [](\A m \in MoveInputs :
          Rejects(m) => makeMove(St, m[1], m[2], m[3], m[4]) = [St EXCEPT !.ret = "False"])
  /\ [][RejectedStep => UNCHANGED game /\ signals' = <<>>]_vars

\* a move of a piece of the player to move to a square it cannot reach has been rejected
C1_Witness ==
  /\ op.name = "makeMove"
  /\ ret = "False"
  /\ currentPlayer = Red
  /\ Len(nodes) > 1
  /\ \E m \in MoveInputs : ~NotOwnPiece(St, m[1], m[2]) /\ ~IsLegal(St, m[1], m[2], m[3], m[4])

\* C2: a successful makeMove returns True, raises the ply counter by one, hands the turn
\* to the color that follows the mover, and leaves as current node the child of the
\* previous current node that carries the canonical token of the move, with the position
\* text generated for the new state as its snapshot.
C2_AcceptedMoveAdvances ==
  [][ AcceptedStep =>
        /\ moveNumber' = moveNumber + 1
        /\ currentPlayer' = Follows(currentPlayer)
        /\ nodes'[currentMove'].parent = currentMove
        /\ \E i \in 1..Len(nodes'[currentMove].children) :
             nodes'[currentMove].children[i] = currentMove'
        /\ ~Rejects(op'.move)
        /\ nodes'[currentMove'].name =
             strMove(St, op'.move[1], op'.move[2], op'.move[3], op'.move[4])
        /\ nodes'[currentMove'].fen4 = Fen4Text(St') ]_vars

\* Green has moved and Red is to move again
C2_Witness ==
  /\ op.name = "makeMove"
  /\ ret = "True"
  /\ currentPlayer = Red
  /\ op.move = <<12, 6, 11, 6>>
  /\ nodes[currentMove].parent = op.at
  /\ nodes[currentMove].fen4 = Fen4Text(St)

(***************************************************************************)
(* The move tree.                                                          *)
(***************************************************************************)
\* the canonical token of the move an accepted makeMove step enters
Entered == strMove(St, op'.move[1], op'.move[2], op'.move[3], op'.move[4])

\* the children of the current node that carry a token
Named(token) ==
  {c \in 1..Len(nodes) : nodes[c].parent = currentMove /\ nodes[c].name = token}

\* no node has two children with the same token
NoTwins ==
  \A n \in 1..Len(nodes) :
    \A i, j \in 1..Len(nodes[n].children) :
      i # j => nodes[nodes[n].children[i]].name # nodes[nodes[n].children[j]].name

\* the nodes present before a step keep their token, parent and children
SameTree ==
  /\ Len(nodes') = Len(nodes)
  /\ \A n \in 1..Len(nodes) :
       /\ nodes'[n].name = nodes[n].name
       /\ nodes'[n].parent = nodes[n].parent
       /\ nodes'[n].children = nodes[n].children

\* C3: no node of the tree has two children with the same token; a makeMove whose token
\* already names a child of the current node makes that child current and adds no node.
C3_NoDuplicateChildren ==
  /\ []NoTwins
  /\ [][AcceptedStep /\ Named(Entered) # {} =>
          /\ currentMove' \in Named(Entered)
          /\ SameTree]_vars

\* a move has been entered again after it was taken back, in a tree that also holds a
\* later node
C3_Witness ==
  /\ op.name = "makeMove"
  /\ ret = "True"
  /\ currentMove < Len(nodes)
  /\ nodes[currentMove].parent = op.at

\* C4: a successful makeMove whose token is new among the children of the current node
\* appends exactly one node, as the last child of the current node; the children the
\* node had keep their order, and no other node's children change.
C4_NewMoveAppendsLastChild ==
  [][AcceptedStep /\ Named(Entered) = {} =>
       /\ Len(nodes') = Len(nodes) + 1
       /\ currentMove' = Len(nodes')
       /\ nodes'[currentMove'].name = Entered
       /\ nodes'[currentMove'].parent = currentMove
       /\ nodes'[currentMove'].children = <<>>
       /\ nodes'[currentMove].children = Append(nodes[currentMove].children, currentMove')
       /\ \A n \in 1..Len(nodes) :
            /\ n # currentMove => nodes'[n].children = nodes[n].children
            /\ nodes'[n].name = nodes[n].name
            /\ nodes'[n].parent = nodes[n].parent]_vars

\* a variation has been appended behind the main line as the second child of its parent
C4_Witness ==
  /\ op.name = "makeMove"
  /\ ret = "True"
  /\ currentMove = Len(nodes)
  /\ Len(nodes[op.at].children) = 2
  /\ nodes[op.at].children[2] = currentMove

(***************************************************************************)
(* Snapshots.                                                              *)
(***************************************************************************)
\* C5: once newGame has been called, whatever makeMove, prevMove and nextMove calls
\* follow, the snapshot of the current node is the position text getFen4 generates for
\* the live state, also after prevMove has returned to the node before a king or rook
\* move that forfeited castling rights.
C5_SnapshotIsLivePosition ==
  currentPlayer # NoPlayer => nodes[currentMove].fen4 = Fen4Text(St)

\* the ply a position text of dialect A states
TextPly(fen4) == LET f == SplitOn(fen4, " ") IN int(f[Len(f) - 1][1])

\* the position text of dialect A that results from applying a move token to the
\* position a text of dialect A describes
ApplyToken(fen4, token) ==
  LET m == getMove(token)
      before == parseFen4(fen4, FALSE)
      after == [St EXCEPT !.chesscom = FALSE,
                          !.board = BoardMakeMove(before, m.fromFile, m.fromRank,
                                                  m.toFile, m.toRank),
                          !.currentPlayer = Follows(FenPlayer(fen4, FALSE)),
                          !.moveNumber = TextPly(fen4) + 1]
  IN  Fen4Text(after)

\* C6: in every reachable tree of dialect A each node other than the root that has a
\* snapshot holds the text obtained by applying its own token to the snapshot of its
\* parent; a variation entered after a move that forfeited castling rights was undone
\* carries the castling rights of its parent's snapshot.
C6_SnapshotIsParentPlusToken ==
  ~chesscom =>
    \A n \in 2..Len(nodes) :
      nodes[n].fen4 # None =>
        nodes[n].fen4 = ApplyToken(nodes[nodes[n].parent].fen4, nodes[n].name)

(***************************************************************************)
(* The turn queue.                                                         *)
(***************************************************************************)
Rotations ==
  { <<Red, Blue, Yellow, Green>>, <<Blue, Yellow, Green, Red>>,
    <<Yellow, Green, Red, Blue>>, <<Green, Red, Blue, Yellow>> }

\* C7: the turn queue is always a rotation of (Red, Blue, Yellow, Green); each successful
\* makeMove hands the turn to the next color of that rotation; after four successive
\* successful makeMove calls the mover of the first of them is to move again.
C7_TurnsRotate ==
  /\ [](playerQueue \in Rotations)
  /\ [](Len(streak) = 4 => currentPlayer = streak[1])
  /\ [][AcceptedStep =>
          /\ playerQueue' = <<playerQueue[2], playerQueue[3], playerQueue[4], playerQueue[1]>>
          /\ currentPlayer' = playerQueue'[1]
          /\ currentPlayer' = Follows(currentPlayer)]_vars

\* Blue, Yellow, Green and Red have moved in turn and Blue is to move again
C7_Witness ==
  /\ streak = <<Blue, Yellow, Green, Red>>
  /\ op.name = "makeMove"
  /\ ret = "True"
  /\ currentPlayer = Blue
  /\ playerQueue = <<Blue, Yellow, Green, Red>>

(***************************************************************************)
(* Stepping through the tree.                                              *)
(***************************************************************************)
\* a step forward: an accepted makeMove, or nextMove at a node that has children
ForwardStep ==
  \/ AcceptedStep
  \/ op'.name = "nextMove" /\ nodes[currentMove].children # <<>>

\* the text of the default start position in the dialect in use
StartText == IF chesscom THEN chesscomStartFen4 ELSE startFen4

\* C8: prevMove right after a step forward (makeMove or nextMove(i)) restores the current
\* node, the ply counter, the current player and the turn queue of before that step;
\* from the default start position a Red pawn opening move followed by prevMove gives
\* the start text again, character by character.
C8_PrevMoveInvertsForwardStep ==
  [][ForwardStep =>
       LET back == prevMove(St')
       IN  /\ back.currentMove = currentMove
           /\ back.moveNumber = moveNumber
           /\ back.currentPlayer = currentPlayer
           /\ back.playerQueue = playerQueue
           /\ (AcceptedStep /\ Fen4Text(St) = StartText /\ Char1(Entered[1]) = "P")
                => Fen4Text(back) = StartText]_vars

\* prevMove has taken back the Red pawn opening move of a game from the start position
C8_Witness ==
  /\ op.name = "prevMove"
  /\ op.at # currentMove
  /\ nodes[op.at].parent = currentMove
  /\ Char0(nodes[op.at].name[1]) = "r"
  /\ Char1(nodes[op.at].name[1]) = "P"
  /\ nodes[currentMove].name = RootName
  /\ nodes[currentMove].fen4 = StartText
  /\ Fen4Text(St) = StartText
  /\ currentPlayer = Red
  /\ moveNumber = 0

\* C9: prevMove at the root and nextMove at a leaf change nothing and emit nothing.
C9_NoStepBeyondTheEnds ==
  [][ \/ op'.name = "prevMove" /\ nodes[currentMove].name = RootName
      \/ op'.name = "nextMove" /\ nodes[currentMove].children = <<>>
      => UNCHANGED game /\ signals' = <<>> /\ ret' = "None" ]_vars

\* nextMove has been called at a leaf below the root
C9_Witness ==
  /\ op.name = "nextMove"
  /\ op.at = currentMove
  /\ nodes[currentMove].children = <<>>
  /\ nodes[currentMove].name # RootName
  /\ signals = <<>>

\* the leaf reached from a node by always taking child 0
RECURSIVE MainLineEnd(_)
MainLineEnd(n) ==
  IF nodes[n].children = <<>> THEN n ELSE MainLineEnd(nodes[n].children[1])

\* the nodes from the root to a node
RECURSIVE Ancestry(_)
Ancestry(n) == IF nodes[n].parent = 0 THEN {n} ELSE {n} \cup Ancestry(nodes[n].parent)

\* C10: firstMove ends at the root with the ply counter at the ply the game started from
\* and the player who started to move; lastMove ends at the leaf reached from the root
\* by always taking child 0, also when called from inside a variation.
C10_FirstAndLastMove ==
  /\ op.name = "firstMove" =>
       /\ nodes[currentMove].name = RootName
       /\ nodes[currentMove].parent = 0
       /\ moveNumber = fenMoveNumber - 1
       /\ currentPlayer # NoPlayer => currentPlayer = FenPlayer(nodes[currentMove].fen4, chesscom)
       /\ currentPlayer # NoPlayer => playerQueue[1] = currentPlayer
  /\ op.name = "lastMove" =>
       /\ nodes[currentMove].children = <<>>
       /\ \E root \in Ancestry(currentMove) :
            nodes[root].parent = 0 /\ currentMove = MainLineEnd(root)

\* lastMove has been called at the leaf of a variation and has gone to the main line
C10_Witness ==
  /\ op.name = "lastMove"
  /\ op.at # currentMove
  /\ nodes[op.at].children = <<>>
  /\ nodes[nodes[op.at].parent].children[1] # op.at
  /\ currentMove = MainLineEnd(1)
  /\ moveNumber > fenMoveNumber

(***************************************************************************)
(* Loading a position.                                                     *)
(***************************************************************************)
\* C11: after newGame, whatever the state it is called in, the game is reset: the
\* current node is a root without children and without parent whose snapshot is the
\* loaded start text, the ply counter is the ply of that text, the result is no-result
\* and the stored move text is empty, also when the live position text already equals
\* the start text because the moves made were undone.
C11_NewGameResets ==
  op.name = "newGame" =>
    /\ nodes[currentMove].name = RootName
    /\ nodes[currentMove].parent = 0
    /\ nodes[currentMove].children = <<>>
    /\ nodes[currentMove].fen4 = StartText
    /\ moveNumber = 0
    /\ result = NoResult
    /\ moveText = <<>>
    /\ chesscomMoveText = <<>>

\* the state of a fresh game of the same dialect that has loaded the position text of
\* the present state
Reloaded == setBoardState(FreshGame(chesscom), Fen4Text(St))

\* C12: the position text round-trips in both dialects: loading the text getFen4
\* generates for a reachable state into a fresh game of the same dialect gives the same
\* ply counter and the same current player, and encoding again gives the same text.
C12_PositionTextRoundTrip ==
  /\ Reloaded.moveNumber = moveNumber
  /\ Reloaded.currentPlayer = currentPlayer
  /\ Fen4Text(Reloaded) = Fen4Text(St)

\* "1" for a castling right the board holds, "0" for one it has lost
Flag(c, side) == IF Right(board.castle, c, side) # {} THEN "1" ELSE "0"

\* the prefix of the dialect B text for Red to move, all castling rights and ply 0:
\* 'R-0,0,0,0-1,1,1,1-1,1,1,1-0,0,0,0-0-'
StartPrefix ==
  <<"R", "-", "0", ",", "0", ",", "0", ",", "0", "-", "1", ",", "1", ",", "1", ",", "1",
    "-", "1", ",", "1", ",", "1", ",", "1", "-", "0", ",", "0", ",", "0", ",", "0", "-",
    "0", "-">>

\* C13: with dialect B active, getFen4 after newGame returns chesscomStartFen4 token by
\* token, with the prefix 'R-0,0,0,0-1,1,1,1-1,1,1,1-0,0,0,0-0-'; in every text of
\* dialect B the king side flags precede the queen side flags and each group lists Red,
\* Blue, Yellow, Green.
C13_ChesscomStartText ==
  chesscom =>
    /\ op.name = "newGame" =>
         /\ Fen4Text(St) = chesscomStartFen4
         /\ SubSeq(Fen4Text(St), 1, Len(StartPrefix)) = StartPrefix
    /\ SubSeq(Fen4Text(St), 10, 26) =
         <<"-", Flag(RED, KINGSIDE), ",", Flag(BLUE, KINGSIDE), ",",
           Flag(YELLOW, KINGSIDE), ",", Flag(GREEN, KINGSIDE),
           "-", Flag(RED, QUEENSIDE), ",", Flag(BLUE, QUEENSIDE), ",",
           Flag(YELLOW, QUEENSIDE), ",", Flag(GREEN, QUEENSIDE), "-">>

\* newGame has been called in dialect B in a game that had moves
C13_Witness ==
  /\ chesscom
  /\ op.name = "newGame"
  /\ op.at # 1
  /\ Len(nodes) = 1
  /\ Fen4Text(St) = chesscomStartFen4

\* a step in which one of the two parsers has read a text
ReadStep == parsed'.reads = parsed.reads + 1

\* the names and ratings of the four players, and the result
Header ==
  <<redName, blueName, yellowName, greenName, redRating, blueRating, yellowRating,
    greenRating, result>>

\* the game is in the default start state: a root alone, the start position on the
\* board, ply 0 and Red to move
DefaultStart ==
  /\ Len(nodes) = 1
  /\ currentMove = 1
  /\ nodes[1].name = RootName
  /\ nodes[1].fen4 = StartText
  /\ Fen4Text(St) = StartText
  /\ moveNumber = 0
  /\ currentPlayer = Red

\* C14: when parsePgn4 or parseChesscomPgn4 returns False, the player names, the ratings
\* and the result hold the values they had before the call, and the tree and the
\* position are either those of before the call or the default start state.
C14_FailedParseLeavesState ==
  [][(ReadStep /\ ret' = "False") =>
       /\ Header' = Header
       /\ \/ <<board, nodes, currentMove, moveNumber, currentPlayer>>' =
               <<board, nodes, currentMove, moveNumber, currentPlayer>>
          \/ DefaultStart']_vars

\* the last call was a call of a parser
Reading == parsed.status # "none"

\* the lines of a text, stripped
LinesOf(pgn4) == [i \in 1..Len(SplitOn(pgn4, "\n")) |-> strip(SplitOn(pgn4, "\n")[i])]

IsTag(line) == line # <<>> /\ line[1] = "[" /\ line[Len(line)] = "]"

\* the text has the tag with one of the values
HasTag(pgn4, name, values) ==
  \E i \in DOMAIN LinesOf(pgn4) :
    /\ IsTag(LinesOf(pgn4)[i])
    /\ TagOf(LinesOf(pgn4)[i])[1] = <<name>>
    /\ TagOf(LinesOf(pgn4)[i])[2] \in values

\* the Variant tag of the text names Free-For-All
NamesFFA(pgn4) == HasTag(pgn4, "Variant", {<<"FFA">>, <<"Free-For-All">>})

\* the text has a line of movetext before the tag the parser requires
MovetextFirst(pgn4, dialect) ==
  \E i \in DOMAIN LinesOf(pgn4) :
    /\ LinesOf(pgn4)[i] # <<>>
    /\ ~IsTag(LinesOf(pgn4)[i])
    /\ \A j \in 1..(i - 1) :
         ~(IsTag(LinesOf(pgn4)[j]) /\ TagOf(LinesOf(pgn4)[j])[1] = GoToTag(dialect))

\* how often a signal was emitted
Count(emitted, signal) == Cardinality({i \in DOMAIN emitted : emitted[i] = signal})

\* C15: after a parser has read a text whose Variant tag names Free-For-All ('FFA' or
\* 'Free-For-All'), or whose movetext starts before the required tag, cannotReadPgn4 has
\* been emitted exactly once, the call has returned False, no move was applied and the
\* game is at the freshly reset default start position.
C15_UnsupportedTextFails ==
  (Reading /\ (NamesFFA(parsed.pgn4) \/ MovetextFirst(parsed.pgn4, chesscom))) =>
    /\ Count(signals, "cannotReadPgn4") = 1
    /\ ret = "False"
    /\ parsed.entered = 0
    /\ DefaultStart
    /\ nodes[1].children = <<>>

\* C16: when makeMove has rejected a move token of the movetext, the parse fails:
\* cannotReadPgn4 is emitted, no later move token is handed to makeMove and the call
\* does not return True.
C16_RejectedTokenFails ==
  (Reading /\ parsed.rejected > 0) =>
    /\ Count(signals, "cannotReadPgn4") >= 1
    /\ parsed.rejected = 1
    /\ ret # "True"

\* C17: in both parsers, after each ')' and before the forward step, the current node
\* is the node the matching '(' has pushed, also when the move token of that node
\* occurs again deeper in the variation.
C17_RewindsToPushedNode ==
  \A i \in DOMAIN parsed.rewound : parsed.rewound[i][2] = parsed.rewound[i][1]

\* a tree as the set of its nodes, each given by the child numbers on the way from the
\* root and by its move token, the same for two trees with the same tokens in the same
\* child order
Shape(tree) == {<<pathFromRoot(tree, n), tree[n].name>> : n \in DOMAIN tree}

\* a fresh game of dialect A that has parsed the text the game emits
Reparsed == parsePgn4(FreshGame(FALSE), Pgn4Text(St))

\* C18: the move text round-trips through the tree in dialect A: for a tree built from
\* the default start position, parsing the text emitted for it builds a tree with the
\* same move tokens in the same child order at every node, and emitting that tree
\* gives the same move text.
C18_MoveTextRoundTrip ==
  (~chesscom /\ currentPlayer # NoPlayer /\ nodes[1].fen4 = startFen4) =>
    /\ Reparsed.ret = "True"
    /\ Shape(Reparsed.nodes) = Shape(nodes)
    /\ Reparsed.moveText = moveText

\* the text has a tag of the name
Tagged(pgn4, name) ==
  \E i \in DOMAIN LinesOf(pgn4) :
    IsTag(LinesOf(pgn4)[i]) /\ TagOf(LinesOf(pgn4)[i])[1] = <<name>>

\* C19: after parsePgn4 has returned True for a text with a StartFen4 tag, the snapshot
\* of the root is the value of that tag and the moves of the movetext were applied from
\* that position.
C19_StartFen4Recognized ==
  (Reading /\ ~chesscom /\ ret = "True" /\ Tagged(parsed.pgn4, "StartFen4")) =>
    /\ HasTag(parsed.pgn4, "StartFen4", {nodes[1].fen4})
    /\ parsed.rejected = 0

\* C20: after a parser has returned True for a text with a Result tag and at least one
\* move, the result of the game is the value of the Result tag, whatever the state
\* before the call.
C20_ResultTagSetsResult ==
  (Reading /\ ret = "True" /\ Tagged(parsed.pgn4, "Result") /\ parsed.entered >= 1) =>
    HasTag(parsed.pgn4, "Result", {<<result>>})

\* the place among the whitespace-separated tokens of the move text, counted from 1,
\* of the token a dictionary records for a node
Place(d, n) == d[CHOOSE i \in DOMAIN d : d[i][2] = n][1][1] + 1

\* '(' minus ')' among the first i words of a text
Depth(words, i) ==
  Cardinality({k \in 1..i : words[k] = <<"(">>})
  - Cardinality({k \in 1..i : words[k] = <<")">>})

\* no ')' without its '(' before it, and no '(' left open
Nested(words) ==
  /\ \A i \in DOMAIN words : Depth(words, i) >= 0
  /\ Depth(words, Len(words)) = 0

\* the ')' that closes the '(' at place j
Closing(words, j) ==
  CHOOSE c \in (j + 1)..Len(words) :
    /\ Depth(words, c) = Depth(words, j) - 1
    /\ \A k \in (j + 1)..(c - 1) : Depth(words, k) >= Depth(words, j)

\* the children of the tree that are not the first child of their node
Variations ==
  {n \in DOMAIN nodes :
     nodes[n].parent # 0 /\ nodes[nodes[n].parent].children[1] # n}

IsNumber(word) == Len(word) = 1 /\ isdigit(word[1])

IsDots(word) == word # <<>> /\ \A k \in DOMAIN word : word[k] = "."

\* the place of the '(' of a variation: directly before its number, its dots if it has
\* any, and its token
OpenPlace(d, words, v) ==
  IF IsDots(words[Place(d, v) - 1]) THEN Place(d, v) - 3 ELSE Place(d, v) - 2

\* the words of a dialect A move text and its dictionary d put every variation of the
\* tree in parentheses of its own, behind the main child of its node
Parenthesized(d, words) ==
  /\ Nested(words)
  /\ Cardinality({k \in DOMAIN words : words[k] = <<"(">>}) = Cardinality(Variations)
  /\ \A v \in Variations :
       /\ OpenPlace(d, words, v) >= 1
       /\ words[OpenPlace(d, words, v)] = <<"(">>
       /\ IsNumber(words[OpenPlace(d, words, v) + 1])
       /\ Place(d, nodes[nodes[v].parent].children[1]) < OpenPlace(d, words, v)
       /\ \A m \in DOMAIN nodes \ {1} :
            (v \in Ancestry(m)) <=>
              /\ OpenPlace(d, words, v) < Place(d, m)
              /\ Place(d, m) < Closing(words, OpenPlace(d, words, v))
  /\ \A v, w \in Variations : v # w => OpenPlace(d, words, v) # OpenPlace(d, words, w)

\* the two texts updateMoveText has emitted in e
BothParenthesized(e) ==
  /\ Parenthesized(e.moveDict, split(e.moveText))
  /\ Nested(split(e.chesscomMoveText))
  /\ Cardinality({k \in DOMAIN e.chesscomMoveText : e.chesscomMoveText[k] = "("})
       = Cardinality(Variations)

\* C21: in the move text getMoveText emits for a tree, every child that is not a first
\* child has one '(' directly before its move-number context and its token and one ')'
\* behind the whole of its subtree; the parentheses are balanced and properly nested,
\* there are as many '(' as such children, and the token of the main child precedes
\* the variations of its node.
C21_VariationsParenthesized == BothParenthesized(updateMoveText(St))

\* a variation inside a variation has been entered
C21_Witness ==
  /\ op.name = "makeMove"
  /\ \E v, w \in Variations : v # w /\ v \in Ancestry(w)

\* the nodes of the main line: the root's first child, its first child, and so on
MainLine == {n \in DOMAIN nodes \ {1} : \A m \in Ancestry(n) \ {1} : m \notin Variations}

\* the ply of a node's move, counted from 0 at a standard start
PlyOf(n) == TextPly(nodes[1].fen4) + Cardinality(Ancestry(n)) - 2

\* a move-number token: a number and a dot
IsMoveNumber(word) == Len(word) = 2 /\ isdigit(word[1]) /\ word[2] = "."

\* the word in front of the token of a node, none for the first word of the text
Before(d, words, n) == IF Place(d, n) = 1 THEN <<>> ELSE words[Place(d, n) - 1]

\* the words of a dialect A move text and its dictionary d number the main line at
\* the first ply of each rotation, and nowhere else
MainLineNumbered(d, words) ==
  \A n \in MainLine :
    IF PlyOf(n) % 4 = 0
    THEN Before(d, words, n) = <<str(PlyOf(n) \div 4 + 1), ".">>
    ELSE ~IsMoveNumber(Before(d, words, n))

NumberedIn(e) == MainLineNumbered(e.moveDict, split(e.moveText))

\* C22: on the main line of the dialect A move text a move-number token '<n>.' stands
\* directly before each move whose ply p, counted from 0 at a standard start, is a
\* multiple of 4, with n = p div 4 + 1, and before no other move of the main line.
C22_MainLineNumbers == ~chesscom => NumberedIn(updateMoveText(St))

\* a main line that has a variation goes over the end of a rotation into the next
C22_Witness ==
  /\ ~chesscom
  /\ op.name = "makeMove"
  /\ Variations # {}
  /\ \E n, m \in MainLine : PlyOf(n) = 3 /\ PlyOf(m) = 4

\* the words of a move text open as the text of a game that starts at ply s
OpensAt(words, s) ==
  IF s % 4 > 0
  THEN /\ Len(words) >= 2
       /\ words[1] = <<str(s \div 4 + 1), ".">>
       /\ words[2] = Dots(s % 4)
  ELSE Len(nodes) > 1 =>
         /\ words[1] = <<str(s \div 4 + 1), ".">>
         /\ ~IsDots(words[2])

\* C23: when the game was loaded in dialect A from a position text with start ply s,
\* the move text begins with the token '<s div 4 + 1>.', followed by a token of exactly
\* s mod 4 dots if s mod 4 > 0; if s mod 4 = 0 it begins with the ordinary move-number
\* token and has no token of dots behind it.
C23_StartMarker ==
  (~chesscom /\ currentPlayer # NoPlayer) =>
    OpensAt(split(updateMoveText(St).moveText), TextPly(nodes[1].fen4))

\* a game loaded at the last ply of a rotation has a move and a variation
C23_Witness ==
  /\ ~chesscom
  /\ op.name = "makeMove"
  /\ TextPly(nodes[1].fen4) = 3
  /\ Variations # {}

\* a word of the move text that is no move: a number, dots or a parenthesis
IsMark(word) ==
  \/ IsNumber(word)
  \/ IsMoveNumber(word)
  \/ IsDots(word)
  \/ word \in {<<"(">>, <<")">>}

\* the dictionary d indexes the words of the move text, and inverse turns it round
Indexed(d, inverse, words) ==
  /\ Len(d) = Len(words)
  /\ {d[i][1][1] : i \in DOMAIN d} = 0..(Len(words) - 1)
  /\ \A i \in DOMAIN d :
       /\ words[d[i][1][1] + 1] = d[i][1][2]
       /\ d[i][2] = 0 <=> IsMark(d[i][1][2])
  /\ \A n \in DOMAIN nodes \ {1} :
       /\ Cardinality({i \in DOMAIN d : d[i][2] = n}) = 1
       /\ DictHas(inverse, n)
       /\ DictHas(d, DictGet(inverse, n))
       /\ DictGet(d, DictGet(inverse, n)) = n

IndexedIn(e) == Indexed(e.moveDict, e.inverseMoveDict, split(e.moveText))

\* C24: after updateMoveText on a tree without comments the recorded indices are
\* exactly 0..n-1 without gap or repeat, entry k holds the k-th whitespace-separated
\* token of the dialect A move text, the entries of numbers, dots and parentheses map to
\* no node, and every node but the root is the value of exactly one entry, so that the
\* inverse map is defined for it.
C24_TokensIndexed == IndexedIn(updateMoveText(St))

\* the text of a tree with a variation inside a variation has been indexed
C24_Witness ==
  /\ op.name = "makeMove"
  /\ ret = "True"
  /\ \E v, w \in Variations : v # w /\ v \in Ancestry(w)
  /\ Len(moveDict) >= 10

\* the place of a notification in the order board, player, position text, move text,
\* selection and highlight; the notifications of the game text and of the result have none
Rank(signal) ==
  CASE signal = "boardChanged" -> 1
    [] signal = "currentPlayerChanged" -> 2
    [] signal = "fen4Generated" -> 3
    [] signal = "moveTextChanged" -> 4
    [] signal \in {"selectMove", "removeMoveSelection", "addHighlight", "removeHighlight",
                   "addArrow"} -> 5
    [] OTHER -> 0

\* the notifications of one call follow the order of their ranks
InOrder(emitted) ==
  \A i, j \in DOMAIN emitted :
    (i < j /\ Rank(emitted[i]) > 0 /\ Rank(emitted[j]) > 0) =>
      Rank(emitted[i]) <= Rank(emitted[j])

\* C25: the notifications a call of makeMove, prevMove, nextMove or setBoardState emits
\* appear in the order board changed, current player changed, position text generated,
\* move text generated, then selection, highlight and arrow events; none of the move text
\* or highlight notifications comes before the current-player notification of the call.
C25_NotificationOrder ==
  op.name \in {"makeMove", "prevMove", "nextMove", "setBoardState"} => InOrder(signals)

\* the move the token converted last stands for is the castling of colour c on side s
Castles(c, s) == op.move = CastlingOf(c, s)

\* C26: for each of the four colours and each side, toAlgebraic and toChesscomMove map
\* the token of the king moving from its home square onto its own rook's home square to
\* 'O-O' (king side) or 'O-O-O' (queen side), and fromAlgebraic and fromChesscomMove of
\* that text for the same player return the king's home square and that rook's home
\* square, the square whose bit setCastlingAvailability uses for the colour and side.
C26_CastlingRoundTrip ==
  \A c \in {RED, BLUE, YELLOW, GREEN}, s \in {QUEENSIDE, KINGSIDE} :
    Castles(c, s) =>
      /\ op.name \in {"toAlgebraic", "toChesscomMove"} =>
           ret = IF s = KINGSIDE THEN <<"O", "-", "O">> ELSE <<"O", "-", "O", "-", "O">>
      /\ op.name \in {"fromAlgebraic", "fromChesscomMove"} =>
           ret = <<fileOf(KingHomeOf(c)), rankOf(KingHomeOf(c)),
                   fileOf(RookHomeOf(c, s)), rankOf(RookHomeOf(c, s))>>

\* Yellow's castling on the king side has been written and read back in dialect B
C26_Witness ==
  /\ op.name = "fromChesscomMove"
  /\ Castles(YELLOW, KINGSIDE)
  /\ ret = <<6, 13, 3, 13>>

\* the move the token converted last stands for is no castling
Plain == \A c \in {RED, BLUE, YELLOW, GREEN}, s \in {QUEENSIDE, KINGSIDE} : ~Castles(c, s)

\* C27: for every move token that is no castling (any kind of piece, with or without a
\* captured piece, origin and destination on files a..n and ranks 1..14),
\* fromAlgebraic(toAlgebraic(token)) and fromChesscomMove(toChesscomMove(token)) return
\* the origin file and rank and the destination file and rank of the token.
C27_TokenRoundTrip ==
  (Plain /\ op.name \in {"fromAlgebraic", "fromChesscomMove"}) =>
    ret = <<op.move[1], op.move[2], op.move[3], op.move[4]>>

\* a piece has captured a piece between squares of two-digit ranks, read back in dialect B
C27_Witness ==
  /\ op.name = "fromChesscomMove"
  /\ op.move = <<13, 13, 4, 9, "yQ", "bQ">>
  /\ ret = <<13, 13, 4, 9>>

\* C29: for every origin and destination square and every piece on the origin and piece
\* or nothing on the destination, _getMove(strMove(from, to)) returns the origin, the
\* destination, the tag of the moving piece and the tag of the captured piece, a blank
\* when the destination is empty.
C29_MoveTokenLossless ==
  op.name = "_getMove" =>
    ret = [fromFile |-> op.move[1], fromRank |-> op.move[2],
           toFile |-> op.move[3], toRank |-> op.move[4],
           piece |-> op.move[5], captured |-> op.move[6]]

\* the tokens of a capture and of a move onto an empty square have been read back
C29_Witness ==
  /\ op.name = "_getMove"
  /\ op.move[6] # " "
  /\ ret.captured = op.move[6]
  /\ ret.toRank = 13

\* the path from the root to node n leaves the main line at most once
LeavesOnce(n) ==
  Cardinality({i \in DOMAIN pathFromRoot(nodes, n) : pathFromRoot(nodes, n)[i] # 0}) <= 1

\* from the root of game s, the steps parseChesscomPgn4 takes for the text number end at n
Reaches(s, number, n) ==
  Replay(firstMove(s), MovePath(Numbers(SplitOn(number, "-"))), 1).currentMove = n

\* C28: for every node of the tree whose path from the root leaves the main line at
\* most once, navigating from the root as parseChesscomPgn4 does for the string
\* getMoveNumber returns for the node (a single ply: that many nextMove(); 'ply-variation-
\* move': ply - 1 times nextMove(), then nextMove(variation), then move - 1 times
\* nextMove()) ends at that node.
C28_CurrentMoveRoundTrip ==
  \A n \in DOMAIN nodes : LeavesOnce(n) => Reaches(St, getMoveNumber(nodes, n), n)

\* a node two moves into a variation that leaves the main line after the first move
C28_Witness ==
  \E n \in DOMAIN nodes :
    /\ getMoveNumber(nodes, n) = <<"2", "-", "1", "-", "2">>
    /\ Reaches(St, <<"2", "-", "1", "-", "2">>, n)

\* the number behind the '(' of every variation is the number of the rotation of its ply
VariationsNumbered(d, words) ==
  \A v \in Variations :
    words[OpenPlace(d, words, v) + 1] = <<str((PlyOf(v) \div 4) + 1)>>

VariationsNumberedIn(e) == VariationsNumbered(e.moveDict, split(e.moveText))

\* C30: the move-number context emitted behind the '(' of a variation is the number of
\* the rotation that contains the variation's first ply, p div 4 + 1 for its ply p
\* counted from 0, the number under which the main-line move it replaces is listed, at
\* each of the four positions of the rotation, Green's ply included.
C30_VariationNumber == ~chesscom => VariationsNumberedIn(updateMoveText(St))

\* the moves between the root and the current node
CurrentDepth == Cardinality(Ancestry(currentMove)) - 1

\* the ply setBoardState has recorded for the position the game was loaded from: the
\* ply field of a dialect A text, 0 for a dialect B text
StartPly == fenMoveNumber - 1

C32_QueueFrontIsCurrentPlayer ==
  currentPlayer # NoPlayer => playerQueue[1] = currentPlayer

\* setBoardState has loaded a position for the player who was to move already
C32_Witness ==
  /\ op.name = "setBoardState"
  /\ Count(signals, "boardChanged") = 1
  /\ Count(signals, "currentPlayerChanged") = 0
  /\ currentPlayer = Yellow
  /\ playerQueue[1] = Yellow

\* a call has been made on the second game, or on the first
OtherStep == op'.name \in {"other.newGame", "other.makeMove", "other.prevMove", "other.nextMove"}

OwnStep == op'.name \in {"newGame", "makeMove", "prevMove", "nextMove"}

\* C33: two games are independent: a call on one game (makeMove, prevMove, nextMove,
\* setBoardState) never changes the turn order of the other, so that in any interleaving
\* of calls on the two games each successful makeMove hands the turn to the color that
\* follows the mover of its own game in the cyclic order.
C33_GamesIndependent ==
  /\ [][OtherStep => (currentPlayer # NoPlayer => playerQueue'[1] = currentPlayer)]_vars
  /\ [][OwnStep =>
          (other.currentPlayer # NoPlayer => playerQueue'[1] = other.currentPlayer)]_vars
  /\ [][(op'.name = "makeMove" /\ ret' = "True") =>
          currentPlayer' = Follows(currentPlayer)]_vars
  /\ [][(op'.name = "other.makeMove" /\ ret' = "True") =>
          other'.currentPlayer = Follows(other.currentPlayer)]_vars

\* a call that only walks the tree has been made
WalkStep == op'.name \in {"prevMove", "nextMove", "firstMove", "lastMove"}

\* C34: prevMove, nextMove, firstMove and lastMove only move the current pointer: the set
\* of nodes of the tree and every node's token, parent, order of children, comment and
\* stored snapshot are as they were before the call.
C34_WalkingKeepsTheTree ==
  [][WalkStep =>
       /\ DOMAIN nodes' = DOMAIN nodes
       /\ \A n \in DOMAIN nodes :
            /\ nodes'[n].name = nodes[n].name
            /\ nodes'[n].parent = nodes[n].parent
            /\ nodes'[n].children = nodes[n].children
            /\ nodes'[n].comment = nodes[n].comment
            /\ nodes'[n].fen4 = nodes[n].fen4]_vars

\* firstMove has walked back from a node below the root of a tree with a variation, the
\* nodes of which hold their snapshots
C34_Witness ==
  /\ op.name = "firstMove"
  /\ op.at # 1
  /\ currentMove = 1
  /\ \E n \in DOMAIN nodes : Len(nodes[n].children) >= 2
  /\ \A n \in DOMAIN nodes : n # 1 => nodes[n].fen4 # None

\* C35: setPlayerQueue(p) terminates for every value p that setCurrentPlayer can receive,
\* a turn letter that setBoardState reads from a position text in either dialect setting
\* included: it returns after at most three rotations, with p at the front of the queue
\* and the cyclic order of the four colors preserved.
C35_SetPlayerQueueTerminates ==
  [][(op'.name = "setBoardState" /\ currentPlayer' # currentPlayer) =>
       /\ ret' # "Hangs"
       /\ rotate(playerQueue, currentPlayer', 0).returns
       /\ rotate(playerQueue, currentPlayer', 0).rotations <= 3
       /\ playerQueue' = rotate(playerQueue, currentPlayer', 0).queue
       /\ playerQueue'[1] = currentPlayer'
       /\ playerQueue' \in Rotations]_vars

\* C36: in dialect A, parsing movetext that is split over several lines builds the same
\* move tree as parsing the same tokens written on one line: the moves of an earlier line
\* of movetext are still in the tree when a later line has been processed.
C36_LinesOfMovetext ==
  [][(op'.name = "parsePgn4" /\ parsed'.pgn4 = splitGame) =>
       Shape(nodes') = Shape(parsePgn4(St, joinedGame).nodes)]_vars

\* the value of the last tag of a name among the lines of a text
TagValue(lines, name) ==
  TagOf(lines[CHOOSE i \in DOMAIN lines :
                /\ IsTag(lines[i]) /\ TagOf(lines[i])[1] = <<name>>
                /\ \A j \in (i + 1)..Len(lines) :
                     ~(IsTag(lines[j]) /\ TagOf(lines[j])[1] = <<name>>)])[2]

\* the places in an order of nodes whose node holds the position text as its snapshot
Holding(tree, order, fen4) == {i \in 1..Len(order) : tree[order[i]].fen4 = fen4}

\* the first node of the order that holds the position text, the root if none does
FirstHolding(tree, order, fen4) ==
  IF Holding(tree, order, fen4) = {} THEN order[1]
  ELSE order[CHOOSE i \in Holding(tree, order, fen4) :
               \A j \in Holding(tree, order, fen4) : i <= j]

\* C37: after parsePgn4 has returned True, the current node is the first node in
\* breadth-first order from the root whose stored snapshot equals the value of the
\* CurrentPosition tag; if the snapshot of no node equals it, the game is at the root.
C37_GoesToCurrentPosition ==
  (Reading /\ ~chesscom /\ ret = "True" /\ Tagged(parsed.pgn4, "CurrentPosition")) =>
    currentMove = FirstHolding(nodes,
                               traverse(nodes, <<getRoot(nodes, currentMove)>>, 1),
                               TagValue(LinesOf(parsed.pgn4), "CurrentPosition"))

====
